---- MODULE Spec2Model ----
(***************************************************************************)
(* TaskLeaf backend: the request handlers of routes/tasks.py,              *)
(* routes/calendar.py and routes/pomodoro.py over the relational store,    *)
(* with the calendar service of services/google_calendar.py and the        *)
(* weather service of services/weather.py.  Each handler is one action;    *)
(* the calls a handler makes (token exchange, provider request, weather    *)
(* lookup, commit) are recorded in program order in last.calls.            *)
(***************************************************************************)
EXTENDS Integers, Sequences, FiniteSets, TLC

\* ---- bounds of the model ----
MaxTasks == 2
MaxCategories == 1
MaxSessions == 1
MaxLocalEvents == 2
MaxRemoteEvents == 2
MaxRows == 2
MaxElapsed == 1

\* ---- values ----
Users == {1, 2}
NoId == 0
None == "None"
NetErr == 0
Titles == {"t1", "t2"}
Locations == {"oslo"}
GoogleIds == {"g1"}
TokenStatuses == {200, 400, NetErr}
ProviderStatuses == {200, 204, 404, 500, NetErr}
WeatherStatuses == {200, NetErr}
Emails == <<"a@x.org", "b@x.org">>
Subs == <<"sub1", "sub2">>
Undeclared == "Undeclared"

VARIABLES connected, tasks, categories, sessions, events, nextId, createdFor, last,
          users, inflight, settings

vars == <<connected, tasks, categories, sessions, events, nextId, createdFor, last,
          users, inflight, settings>>

\* the table of users, the requests between their query and their commit, the settings
accounts == <<users, inflight, settings>>

store == <<connected, tasks, categories, sessions, events>>

\* dates are counted in days from date.today(): 0 is today, -1 yesterday, 1 tomorrow
Today == 0

Day == 1

\* ---- rows ----
Task(u, body) ==
    [user_id |-> u, title |-> body.title, completed |-> FALSE,
     location |-> body.location, weather_data |-> None,
     category_id |-> body.category_id,
     sync_with_google_calendar |-> body.sync_with_google_calendar,
     google_calendar_event_id |-> NoId]

Category(u, name) == [user_id |-> u, name |-> name]

User(email, hashed_password, google_id) ==
    [email |-> email, hashed_password |-> hashed_password, google_id |-> google_id]

\* the users of Users: each registered with a password and signed in with Google since
Registered == [u \in Users |-> User(Emails[u], "hash", Subs[u])]

\* core/config.py declares no FRONTEND_URL: Undeclared is the Settings of config.py as
\* it is, the other values those of a Settings that declares the field
Settings(frontend_url) == [FRONTEND_URL |-> frontend_url]

\* started_at (server_default=func.now()): the day, and the place in the order of the inserts
StartedAt(day, tick) == [day |-> day, tick |-> tick]

\* completed_at (nullable): <<>> is NULL, <<day>> the day of the datetime stored
CompletedAt(day) == <<day>>

PomodoroSession(u, session_type, started_at) ==
    [user_id |-> u, session_type |-> session_type, elapsed_minutes |-> 0, is_completed |-> FALSE,
     started_at |-> started_at, completed_at |-> <<>>]

CalendarEvent(u, title, gid) == [user_id |-> u, title |-> title, google_event_id |-> gid]

\* the lookup without the filter on user_id
OwnedByAnyone(table, id, u) == id \in DOMAIN table

\* db.query(T).filter(T.id == id, T.user_id == current_user.id).first() is not None
Owned(table, id, u) == id \in DOMAIN table /\ table[id].user_id = u

Insert(table, id, row) == table @@ (id :> row)

Delete(table, id) == [i \in DOMAIN table \ {id} |-> table[i]]

\* the loop over model_dump() without exclude_unset: every field of the body is assigned
SetAttrsOfEveryField(row, body) ==
    [f \in DOMAIN row |-> IF f \in DOMAIN body THEN body[f] ELSE row[f]]

\* for field, value in update_data.items(): setattr(row, field, value)
\* (update_data = model_dump(exclude_unset=True): the fields in body.fields_set)
SetAttrs(row, body) == [f \in DOMAIN row |-> IF f \in body.fields_set THEN body[f] ELSE row[f]]

\* ---- the trace of one request ----
\* one call: what is called (the token endpoint, a provider event request, the weather
\* API, db.commit), the function calling it, the event id or location it names, the outcome
Call(c, fn, e, l, r) == [call |-> c, fn |-> fn, eid |-> e, loc |-> l, res |-> r]

Commit(ok) == <<Call("commit", "db", NoId, None, IF ok THEN 200 ELSE 500)>>

NoBody == [fields_set |-> {}]

\* the last request: handler, caller, the id it names (or was given), the request body,
\* the response status and the calls made, in program order
Request(op, u, id, body, status, calls) ==
    [op |-> op, user |-> u, id |-> id, body |-> body, status |-> status, calls |-> calls]

Response(op, u, id, status, calls) == Request(op, u, id, NoBody, status, calls)

\* ---- services/weather.py ----
WeatherOf(loc) == "wx_" \o loc

get_weather(loc, wx) ==
    [calls |-> <<Call("weather", "get_weather", NoId, loc, wx)>>,
     value |-> IF wx = 200 THEN WeatherOf(loc) ELSE None]

\* ---- services/google_calendar.py ----
\* the token exchange without the check of the response status
exchange_refresh_token_unchecked(fn, event_id, tok) ==
    [calls |-> <<Call("token", fn, event_id, None, tok)>>, raised |-> FALSE]

exchange_refresh_token(fn, event_id, tok) ==
    [calls |-> <<Call("token", fn, event_id, None, tok)>>, raised |-> tok # 200]

fetch_calendar_events(tok, st) ==
    LET t == exchange_refresh_token("fetch_calendar_events", NoId, tok) IN
    IF t.raised THEN [calls |-> t.calls, raised |-> TRUE, value |-> NoId]
    ELSE [calls |-> t.calls \o <<Call("list", "fetch_calendar_events", NoId, None, st)>>, raised |-> st # 200, value |-> NoId]

\* the create call without the check of the response status
create_calendar_event_unchecked(tok, st, e) ==
    LET t == exchange_refresh_token("create_calendar_event", NoId, tok) IN
    IF t.raised THEN [calls |-> t.calls, raised |-> TRUE, value |-> NoId]
    ELSE [calls |-> t.calls \o <<Call("create", "create_calendar_event", NoId, None, st)>>,
          raised |-> FALSE,
          value |-> e]

create_calendar_event(tok, st, e) ==
    LET t == exchange_refresh_token("create_calendar_event", NoId, tok) IN
    IF t.raised THEN [calls |-> t.calls, raised |-> TRUE, value |-> NoId]
    ELSE [calls |-> t.calls \o <<Call("create", "create_calendar_event", NoId, None, st)>>,
          raised |-> st \notin {200, 201},
          value |-> IF st \in {200, 201} THEN e ELSE NoId]

update_calendar_event(tok, st, event_id) ==
    LET t == exchange_refresh_token("update_calendar_event", event_id, tok) IN
    IF t.raised THEN [calls |-> t.calls, raised |-> TRUE, value |-> NoId]
    ELSE [calls |-> t.calls \o <<Call("update", "update_calendar_event", event_id, None, st)>>,
          raised |-> st \notin {200, 201, 404},
          value |-> IF st \in {200, 201} THEN event_id ELSE NoId]

delete_calendar_event(tok, st, event_id) ==
    LET t == exchange_refresh_token("delete_calendar_event", event_id, tok) IN
    IF t.raised THEN [calls |-> t.calls, raised |-> TRUE, value |-> FALSE]
    ELSE [calls |-> t.calls \o <<Call("delete", "delete_calendar_event", event_id, None, st)>>,
          raised |-> st \notin {200, 204, 404},
          value |-> st \in {200, 204}]

\* the provider's side: an accepted create makes a new event
Created(calls) == \E i \in 1..Len(calls) : calls[i].call = "create" /\ calls[i].res \in {200, 201}

\* the provider answers a create with a fresh event id while ids remain
CreateStatuses == IF nextId.remote <= MaxRemoteEvents THEN ProviderStatuses ELSE ProviderStatuses \ {200, 201}

Provider(calls, task_id) ==
    createdFor' = IF Created(calls) THEN Insert(createdFor, nextId.remote, task_id) ELSE createdFor

Bump(table, calls, inserted) ==
    [nextId EXCEPT ![table] = IF inserted THEN @ + 1 ELSE @,
                   !.remote = IF Created(calls) THEN @ + 1 ELSE @]

\* the model stops inserting at MaxRows rows over all tables, and at each table's bound
Room(table, max) ==
    /\ nextId[table] <= max
    /\ nextId.task + nextId.category + nextId.session + nextId.event - 4 < MaxRows

\* the foreign key tasks.category_id -> categories.id, checked at commit
ForeignKeyOk(t) == t.category_id = NoId \/ t.category_id \in DOMAIN categories

Init ==
    /\ connected = [u \in Users |-> FALSE]
    /\ tasks = <<>>
    /\ categories = <<>>
    /\ sessions = <<>>
    /\ events = <<>>
    /\ nextId = [task |-> 1, category |-> 1, session |-> 1, event |-> 1, remote |-> 1]
    /\ createdFor = <<>>
    /\ users = Registered
    /\ inflight = <<>>
    /\ settings = Settings(Undeclared)
    /\ last = Response("init", NoId, NoId, 200, <<>>)

\* ---- routes/auth.py ----
google_callback(u, refresh_token) ==
    /\ connected' = [connected EXCEPT ![u] = IF refresh_token THEN TRUE ELSE @]
    /\ last' = Response("google_callback", u, NoId, 200, Commit(TRUE))
    /\ UNCHANGED <<accounts, tasks, categories, sessions, events, nextId, createdFor>>

\* the body of a request of routes/auth.py
AuthBody(email) == [fields_set |-> {"email"}, email |-> email]

\* the rows of a table of users that .filter(User.email == email) selects
ByEmail(table, email) == {id \in DOMAIN table : table[id].email = email}

\* unique=True of users.email and of users.google_id (nulls are not compared)
UniqueUsersOk(table) ==
    \A a, b \in DOMAIN table :
        a # b => /\ table[a].email # table[b].email
                 /\ table[a].google_id = None \/ table[a].google_id # table[b].google_id

\* register up to the query of line 45: answered 400, or left to commit
register_query(r, email) ==
    /\ r \notin DOMAIN inflight
    /\ IF ByEmail(users, email) # {}
       THEN /\ last' = Request("register", NoId, NoId, AuthBody(email), 400, <<>>)
            /\ inflight' = inflight
       ELSE /\ last' = last
            /\ inflight' = Insert(inflight, r, [op |-> "register", email |-> email,
                                                google_id |-> None, refresh_token |-> FALSE,
                                                user |-> NoId, loaded |-> None])
    /\ UNCHANGED <<users, settings, connected, tasks, categories, sessions, events, nextId,
                   createdFor>>

\* register from db.add(new_user): the commit raises IntegrityError when the email was
\* taken since the query, which no handler catches
register_commit(r) ==
    /\ r \in DOMAIN inflight
    /\ inflight[r].op = "register"
    /\ LET req == inflight[r]
           id == Cardinality(DOMAIN users) + 1
           written == Insert(users, id, User(req.email, "hash", None))
           ok == UniqueUsersOk(written)
       IN  /\ users' = IF ok THEN written ELSE users
           /\ connected' = IF ok THEN Insert(connected, id, FALSE) ELSE connected
           /\ last' = Request("register", IF ok THEN id ELSE NoId, NoId, AuthBody(req.email),
                              IF ok THEN 201 ELSE 500, Commit(ok))
    /\ inflight' = Delete(inflight, r)
    /\ UNCHANGED <<settings, tasks, categories, sessions, events, nextId, createdFor>>

\* google_callback up to the query of lines 250-252: the user loaded, if any
google_callback_query(r, email, google_id, refresh_token) ==
    /\ r \notin DOMAIN inflight
    /\ LET matches == {id \in DOMAIN users : \/ users[id].email = email
                                             \/ users[id].google_id = google_id}
       IN  \E user \in IF matches = {} THEN {NoId} ELSE matches :
               inflight' = Insert(inflight, r,
                                  [op |-> "google_callback", email |-> email,
                                   google_id |-> google_id, refresh_token |-> refresh_token,
                                   user |-> user,
                                   loaded |-> IF user = NoId THEN None ELSE users[user].google_id])
    /\ last' = last
    /\ UNCHANGED <<users, settings, connected, tasks, categories, sessions, events, nextId,
                   createdFor>>

\* google_callback from line 254: the loaded user is updated or a new one added, and the
\* commit raises IntegrityError on a taken email or google_id; an exception is answered by
\* the redirect of the except clause, and reading settings.FRONTEND_URL raises when
\* Settings does not declare it
google_callback_commit(r) ==
    /\ r \in DOMAIN inflight
    /\ inflight[r].op = "google_callback"
    /\ LET req == inflight[r]
           id == IF req.user # NoId THEN req.user ELSE Cardinality(DOMAIN users) + 1
           written == IF req.user = NoId
                      THEN Insert(users, id, User(req.email, None, req.google_id))
                      ELSE IF req.loaded = None
                      THEN [users EXCEPT ![id].google_id = req.google_id]
                      ELSE users
           ok == UniqueUsersOk(written)
       IN  /\ users' = IF ok THEN written ELSE users
           /\ connected' = IF ~ok THEN connected
                           ELSE IF req.user = NoId THEN Insert(connected, id, req.refresh_token)
                           ELSE [connected EXCEPT ![id] = IF req.refresh_token THEN TRUE ELSE @]
           /\ last' = Request("google_callback", IF ok THEN id ELSE NoId, NoId,
                              AuthBody(req.email),
                              IF settings.FRONTEND_URL = Undeclared THEN 500 ELSE 307,
                              Commit(ok))
    /\ inflight' = Delete(inflight, r)
    /\ UNCHANGED <<settings, tasks, categories, sessions, events, nextId, createdFor>>

\* the URLs of line 346
DevUrls ==
    {"http://localhost:3000", "http://127.0.0.1:3000",
     "https://taskleaf-app-gabe-freza.vercel.app"}

\* create_password_reset_token(user.id) within reset_url
ResetUrl(frontend_url, id) == [url |-> frontend_url, sub |-> id, type |-> "password_reset"]

Generic ==
    [message |-> "If an account exists with this email, you will receive a password reset link."]

\* what forgot_password answers for an email, a table of users and the settings
ForgotPasswordResponse(table, email, s) ==
    LET found == ByEmail(table, email)
        id == CHOOSE i \in found : TRUE
        user == table[id]
        is_dev == s.FRONTEND_URL \in DevUrls
    IN  IF s.FRONTEND_URL = Undeclared THEN [status |-> 500, body |-> <<>>]
        ELSE IF found = {} THEN [status |-> 200, body |-> Generic]
        ELSE IF user.google_id # None /\ user.hashed_password = None
        THEN IF is_dev
             THEN [status |-> 200,
                   body |-> [message |-> "This account uses Google Sign-In and doesn't have a password.",
                             dev_mode |-> TRUE, oauth_only |-> TRUE]]
             ELSE [status |-> 200, body |-> Generic]
        ELSE IF is_dev
             THEN [status |-> 200,
                   body |-> [message |-> "Reset link generated (dev mode)", dev_mode |-> TRUE,
                             reset_url |-> ResetUrl(s.FRONTEND_URL, id)]]
             ELSE [status |-> 200, body |-> Generic]

forgot_password(email) ==
    /\ LET answer == ForgotPasswordResponse(users, email, settings)
       IN  last' = [op |-> "forgot_password", user |-> NoId, id |-> NoId,
                    body |-> AuthBody(email), calls |-> <<>>, status |-> answer.status,
                    response |-> answer.body]
    /\ UNCHANGED <<accounts, connected, tasks, categories, sessions, events, nextId, createdFor>>

\* ---- routes/tasks.py ----
NoCall == [calls |-> <<>>, raised |-> FALSE, value |-> NoId]

NoWeather == [calls |-> <<>>, value |-> None]

\* the handlers' try / except with one handler left unwrapped
CatchesButCreate(op) == op \in {"update_task", "delete_task", "unsync_task_from_calendar"}

CatchesButUpdate(op) == op \in {"create_task", "delete_task", "unsync_task_from_calendar"}

CatchesButDelete(op) == op \in {"create_task", "update_task", "unsync_task_from_calendar"}

\* the handlers that wrap their calendar call in try / except Exception
Catches(op) == op \in {"create_task", "update_task", "delete_task", "unsync_task_from_calendar"}

\* the status FastAPI answers with when a service call raises: the service's
\* HTTPException(400), or 500 for an httpx error nobody catches
Raised(calls) == IF calls[Len(calls)].res = NetErr THEN 500 ELSE 400

\* the outcomes of the outside world: the token endpoint's and the provider's status
\* (the provider is only asked after a token was obtained)
Outcomes ==
    {o \in [tok : TokenStatuses, st : ProviderStatuses] : o.tok # 200 => o.st = 200}

\* an outcome is drawn only for a call the request makes
Draw(called, outcomes) == IF called THEN outcomes ELSE {CHOOSE o \in outcomes : TRUE}

\* a request that makes no call and touches no row
Answer(op, u, id, status) ==
    /\ last' = Response(op, u, id, status, <<>>)
    /\ UNCHANGED <<accounts, connected, tasks, categories, sessions, events, nextId, createdFor>>

\* raise HTTPException(status_code=status) before anything else was done
Reject(op, u, id, status) == Answer(op, u, id, status)

\* a calendar call inside try / except: what it raised is logged and dropped
Try(op, c) == IF Catches(op) THEN [c EXCEPT !.raised = FALSE] ELSE c

\* how a request ends: an exception that reaches FastAPI aborts it before db.commit()
\* (the session is rolled back); otherwise the commit checks the foreign key
Finish(op, u, id, body, c, calls, success, new_tasks, fk) ==
    IF Try(op, c).raised
    THEN /\ tasks' = tasks
         /\ last' = Request(op, u, id, body, Raised(c.calls), calls)
    ELSE /\ tasks' = IF fk THEN new_tasks ELSE tasks
         /\ last' = Request(op, u, id, body, IF fk THEN success ELSE 500, calls \o Commit(fk))

create_task(u, body, weathers, outcomes) ==
    LET new_task == Task(u, body)
        sync == body.sync_with_google_calendar /\ connected[u]
    IN  /\ Room("task", MaxTasks)
        /\ \E wx \in Draw(body.location # None, weathers), o \in Draw(sync, outcomes) :
            LET w == IF body.location # None THEN get_weather(body.location, wx) ELSE NoWeather
                t1 == IF w.value # None THEN [new_task EXCEPT !.weather_data = w.value] ELSE new_task
                c == IF sync THEN create_calendar_event(o.tok, o.st, nextId.remote) ELSE NoCall
                t2 == IF sync /\ ~c.raised THEN [t1 EXCEPT !.google_calendar_event_id = c.value] ELSE t1
                calls == w.calls \o c.calls
            IN  /\ sync => o.st \in CreateStatuses
                /\ Finish("create_task", u, nextId.task, body, c, calls, 201,
                          Insert(tasks, nextId.task, t2), ForeignKeyOk(t2))
                /\ nextId' = Bump("task", calls, ~Try("create_task", c).raised)
                /\ Provider(calls, nextId.task)
        /\ UNCHANGED <<accounts, connected, categories, sessions, events>>

get_task(u, task_id) ==
    IF Owned(tasks, task_id, u) THEN Answer("get_task", u, task_id, 200)
    ELSE Reject("get_task", u, task_id, 404)

\* the reconciliation without the branch that updates an existing event
ReconcileWithoutUpdate(task, old_calendar_event_id) ==
    IF task.sync_with_google_calendar /\ old_calendar_event_id = NoId THEN "create"
    ELSE IF old_calendar_event_id # NoId /\ ~task.sync_with_google_calendar THEN "delete"
    ELSE "none"

\* the branch of the reconciliation update_task takes
Reconcile(task, old_calendar_event_id) ==
    IF task.sync_with_google_calendar /\ old_calendar_event_id = NoId THEN "create"
    ELSE IF task.google_calendar_event_id # NoId /\ task.sync_with_google_calendar THEN "update"
    ELSE IF old_calendar_event_id # NoId /\ ~task.sync_with_google_calendar THEN "delete"
    ELSE "none"

\* "Update weather if location changed": the comparison reads the task after the setattr loop
LocationChanged(task, body) ==
    body.location # None /\ body.location # task.location

\* the assignment to google_calendar_event_id that follows a reconciliation call that returned
Reconciled(task, branch, c) ==
    IF c.raised THEN task
    ELSE IF branch = "create" THEN [task EXCEPT !.google_calendar_event_id = c.value]
    ELSE IF branch = "delete" THEN [task EXCEPT !.google_calendar_event_id = NoId]
    ELSE task

update_task(u, task_id, body, weathers, outcomes) ==
    IF ~Owned(tasks, task_id, u) THEN Reject("update_task", u, task_id, 404)
    ELSE
    LET task == tasks[task_id]
        old_calendar_event_id == task.google_calendar_event_id
        t1 == SetAttrs(task, body)
        branch == IF connected[u] THEN Reconcile(t1, old_calendar_event_id) ELSE "none"
    IN  /\ \E wx \in Draw(LocationChanged(t1, body), weathers), o \in Draw(branch # "none", outcomes) :
            LET w == IF LocationChanged(t1, body) THEN get_weather(body.location, wx) ELSE NoWeather
                t2 == IF w.value # None THEN [t1 EXCEPT !.weather_data = w.value] ELSE t1
                c == CASE branch = "create" -> create_calendar_event(o.tok, o.st, nextId.remote)
                       [] branch = "update" -> update_calendar_event(o.tok, o.st, t2.google_calendar_event_id)
                       [] branch = "delete" -> delete_calendar_event(o.tok, o.st, old_calendar_event_id)
                       [] OTHER -> NoCall
                t3 == Reconciled(t2, branch, c)
                calls == w.calls \o c.calls
            IN  /\ branch = "create" => o.st \in CreateStatuses
                /\ Finish("update_task", u, task_id, body, c, calls, 200,
                          [tasks EXCEPT ![task_id] = t3], ForeignKeyOk(t3))
                /\ nextId' = Bump("task", calls, FALSE)
                /\ Provider(calls, task_id)
        /\ UNCHANGED <<accounts, connected, categories, sessions, events>>

delete_task(u, task_id, outcomes) ==
    IF ~Owned(tasks, task_id, u) THEN Reject("delete_task", u, task_id, 404)
    ELSE
    LET task == tasks[task_id]
        remote == task.google_calendar_event_id # NoId /\ connected[u]
    IN  /\ \E o \in Draw(remote, outcomes) :
            LET c == IF remote THEN delete_calendar_event(o.tok, o.st, task.google_calendar_event_id)
                     ELSE NoCall
            IN  /\ Finish("delete_task", u, task_id, NoBody, c, c.calls, 204, Delete(tasks, task_id), TRUE)
                /\ Provider(c.calls, task_id)
        /\ UNCHANGED <<accounts, connected, categories, sessions, events, nextId>>

sync_task_to_calendar(u, task_id, outcomes) ==
    IF ~connected[u] THEN Reject("sync_task_to_calendar", u, task_id, 400)
    ELSE IF ~Owned(tasks, task_id, u) THEN Reject("sync_task_to_calendar", u, task_id, 404)
    ELSE IF tasks[task_id].google_calendar_event_id # NoId
    THEN Reject("sync_task_to_calendar", u, task_id, 400)
    ELSE
    /\ \E o \in outcomes :
        LET c == create_calendar_event(o.tok, o.st, nextId.remote)
            t1 == [tasks[task_id] EXCEPT !.google_calendar_event_id = c.value,
                                         !.sync_with_google_calendar = TRUE]
        IN  /\ o.st \in CreateStatuses
            /\ Finish("sync_task_to_calendar", u, task_id, NoBody, c, c.calls, 200,
                      [tasks EXCEPT ![task_id] = t1], TRUE)
            /\ nextId' = Bump("task", c.calls, FALSE)
            /\ Provider(c.calls, task_id)
    /\ UNCHANGED <<accounts, connected, categories, sessions, events>>

unsync_task_from_calendar(u, task_id, outcomes) ==
    IF ~Owned(tasks, task_id, u) THEN Reject("unsync_task_from_calendar", u, task_id, 404)
    ELSE IF tasks[task_id].google_calendar_event_id = NoId
    THEN Reject("unsync_task_from_calendar", u, task_id, 400)
    ELSE
    LET task == tasks[task_id]
        t1 == [task EXCEPT !.google_calendar_event_id = NoId, !.sync_with_google_calendar = FALSE]
    IN  /\ \E o \in Draw(connected[u], outcomes) :
            LET c == IF connected[u] THEN delete_calendar_event(o.tok, o.st, task.google_calendar_event_id)
                     ELSE NoCall
            IN  /\ Finish("unsync_task_from_calendar", u, task_id, NoBody, c, c.calls, 200,
                          [tasks EXCEPT ![task_id] = t1], TRUE)
                /\ Provider(c.calls, task_id)
    /\ UNCHANGED <<accounts, connected, categories, sessions, events, nextId>>

\* ---- routes/tasks.py: requests that overlap at the await of their calendar call ----
\* db.commit() of a row loaded earlier: the UPDATE writes the attributes the request
\* assigned, the other columns keep what the table holds
Flush(row, loaded, dirty) == [f \in DOMAIN row |-> IF f \in dirty THEN loaded[f] ELSE row[f]]

\* update_task up to the await of its calendar call: the task is loaded and the fields of
\* the body are assigned in the session (the weather lookup of line 192 compares the
\* location with the one just assigned and never awaits)
update_task_load(r, u, task_id, body) ==
    /\ r \notin DOMAIN inflight
    /\ IF ~Owned(tasks, task_id, u)
       THEN /\ last' = Response("update_task", u, task_id, 404, <<>>)
            /\ inflight' = inflight
       ELSE LET task == tasks[task_id]
                t1 == SetAttrs(task, body)
            IN  /\ last' = last
                /\ inflight' = Insert(inflight, r,
                       [op |-> "update_task", user |-> u, id |-> task_id, body |-> body,
                        old_calendar_event_id |-> task.google_calendar_event_id,
                        task |-> t1,
                        branch |-> IF connected[u]
                                   THEN Reconcile(t1, task.google_calendar_event_id)
                                   ELSE "none"])
    /\ UNCHANGED <<users, settings, connected, tasks, categories, sessions, events, nextId,
                   createdFor>>

\* update_task from the return of its calendar call to db.commit()
update_task_resume(r, outcomes) ==
    /\ r \in DOMAIN inflight
    /\ inflight[r].op = "update_task"
    /\ inflight[r].id \in DOMAIN tasks
    /\ LET req == inflight[r]
           t1 == req.task
       IN  \E o \in Draw(req.branch # "none", outcomes) :
               LET c == CASE req.branch = "create" ->
                                 create_calendar_event(o.tok, o.st, nextId.remote)
                          [] req.branch = "update" ->
                                 update_calendar_event(o.tok, o.st, t1.google_calendar_event_id)
                          [] req.branch = "delete" ->
                                 delete_calendar_event(o.tok, o.st, req.old_calendar_event_id)
                          [] OTHER -> NoCall
                   t3 == Reconciled(t1, req.branch, c)
                   dirty == req.body.fields_set
                                \cup IF ~c.raised /\ req.branch \in {"create", "delete"}
                                     THEN {"google_calendar_event_id"} ELSE {}
                   written == Flush(tasks[req.id], t3, dirty)
               IN  /\ req.branch = "create" => o.st \in CreateStatuses
                   /\ Finish("update_task", req.user, req.id, req.body, c, c.calls, 200,
                             [tasks EXCEPT ![req.id] = written], ForeignKeyOk(written))
                   /\ nextId' = Bump("task", c.calls, FALSE)
                   /\ Provider(c.calls, req.id)
    /\ inflight' = Delete(inflight, r)
    /\ UNCHANGED <<users, settings, connected, categories, sessions, events>>

\* sync_task_to_calendar up to the await of create_calendar_event
sync_task_to_calendar_load(r, u, task_id) ==
    /\ r \notin DOMAIN inflight
    /\ IF ~connected[u] \/ ~Owned(tasks, task_id, u)
          \/ tasks[task_id].google_calendar_event_id # NoId
       THEN /\ last' = Response("sync_task_to_calendar", u, task_id,
                                IF connected[u] /\ ~Owned(tasks, task_id, u) THEN 404 ELSE 400,
                                <<>>)
            /\ inflight' = inflight
       ELSE /\ last' = last
            /\ inflight' = Insert(inflight, r,
                   [op |-> "sync_task_to_calendar", user |-> u, id |-> task_id,
                    body |-> NoBody, old_calendar_event_id |-> NoId, task |-> tasks[task_id],
                    branch |-> "create"])
    /\ UNCHANGED <<users, settings, connected, tasks, categories, sessions, events, nextId,
                   createdFor>>

\* sync_task_to_calendar from the return of create_calendar_event to db.commit()
sync_task_to_calendar_resume(r, outcomes) ==
    /\ r \in DOMAIN inflight
    /\ inflight[r].op = "sync_task_to_calendar"
    /\ inflight[r].id \in DOMAIN tasks
    /\ LET req == inflight[r]
       IN  \E o \in outcomes :
               LET c == create_calendar_event(o.tok, o.st, nextId.remote)
                   t1 == [req.task EXCEPT !.google_calendar_event_id = c.value,
                                          !.sync_with_google_calendar = TRUE]
                   written == Flush(tasks[req.id], t1,
                                    {"google_calendar_event_id", "sync_with_google_calendar"})
               IN  /\ o.st \in CreateStatuses
                   /\ Finish("sync_task_to_calendar", req.user, req.id, NoBody, c, c.calls, 200,
                             [tasks EXCEPT ![req.id] = written], TRUE)
                   /\ nextId' = Bump("task", c.calls, FALSE)
                   /\ Provider(c.calls, req.id)
    /\ inflight' = Delete(inflight, r)
    /\ UNCHANGED <<users, settings, connected, categories, sessions, events>>

\* ---- routes/tasks.py: categories ----
create_category(u, name) ==
    /\ Room("category", MaxCategories)
    /\ categories' = Insert(categories, nextId.category, Category(u, name))
    /\ nextId' = [nextId EXCEPT !.category = @ + 1]
    /\ last' = Response("create_category", u, nextId.category, 201, Commit(TRUE))
    /\ UNCHANGED <<accounts, connected, tasks, sessions, events, createdFor>>

update_category(u, category_id, name) ==
    IF ~Owned(categories, category_id, u) THEN Reject("update_category", u, category_id, 404)
    ELSE
    /\ categories' = [categories EXCEPT ![category_id].name = name]
    /\ last' = Response("update_category", u, category_id, 200, Commit(TRUE))
    /\ UNCHANGED <<accounts, connected, tasks, sessions, events, nextId, createdFor>>

\* db.delete(category) with the tasks of the category deleted along with it
OrphanedCascade(category_id) ==
    [i \in {j \in DOMAIN tasks : tasks[j].category_id # category_id} |-> tasks[i]]

\* db.delete(category): the ORM nulls category_id in the rows of Category.tasks
Orphaned(category_id) ==
    [i \in DOMAIN tasks |-> IF tasks[i].category_id = category_id
                            THEN [tasks[i] EXCEPT !.category_id = NoId] ELSE tasks[i]]

delete_category(u, category_id) ==
    IF ~Owned(categories, category_id, u) THEN Reject("delete_category", u, category_id, 404)
    ELSE
    /\ categories' = Delete(categories, category_id)
    /\ tasks' = Orphaned(category_id)
    /\ last' = Response("delete_category", u, category_id, 204, Commit(TRUE))
    /\ UNCHANGED <<accounts, connected, sessions, events, nextId, createdFor>>

\* ---- routes/pomodoro.py ----
create_session(u, session_type) ==
    /\ Room("session", MaxSessions)
    /\ sessions' = Insert(sessions, nextId.session,
                          PomodoroSession(u, session_type, StartedAt(Today, nextId.session)))
    /\ nextId' = [nextId EXCEPT !.session = @ + 1]
    /\ last' = Response("create_session", u, nextId.session, 200, Commit(TRUE))
    /\ UNCHANGED <<accounts, connected, tasks, categories, events, createdFor>>

\* PomodoroSessionUpdate: is_completed is optional, and None is as false to the handler
SessionBody(elapsed_minutes, is_completed) ==
    [elapsed_minutes |-> elapsed_minutes, is_completed |-> is_completed]

\* an update_session that stores the flag of the body as it is, and no completed_at
update_sessionStoringFlag(u, session_id, elapsed_minutes, is_completed) ==
    IF ~Owned(sessions, session_id, u) THEN Reject("update_session", u, session_id, 404)
    ELSE
    /\ sessions' = [sessions EXCEPT ![session_id].elapsed_minutes = elapsed_minutes,
                                    ![session_id].is_completed = is_completed]
    /\ last' = Request("update_session", u, session_id,
                       SessionBody(elapsed_minutes, is_completed), 200, Commit(TRUE))
    /\ UNCHANGED <<accounts, connected, tasks, categories, events, nextId, createdFor>>

update_session(u, session_id, elapsed_minutes, is_completed) ==
    IF ~Owned(sessions, session_id, u) THEN Reject("update_session", u, session_id, 404)
    ELSE
    /\ sessions' = [sessions EXCEPT ![session_id].elapsed_minutes = elapsed_minutes,
                                    ![session_id].is_completed = IF is_completed THEN TRUE ELSE @,
                                    ![session_id].completed_at =
                                        IF is_completed THEN CompletedAt(Today) ELSE @]
    /\ last' = Request("update_session", u, session_id,
                       SessionBody(elapsed_minutes, is_completed), 200, Commit(TRUE))
    /\ UNCHANGED <<accounts, connected, tasks, categories, events, nextId, createdFor>>

delete_session(u, session_id) ==
    IF ~Owned(sessions, session_id, u) THEN Reject("delete_session", u, session_id, 404)
    ELSE
    /\ sessions' = Delete(sessions, session_id)
    /\ last' = Response("delete_session", u, session_id, 200, Commit(TRUE))
    /\ UNCHANGED <<accounts, connected, tasks, categories, events, nextId, createdFor>>

\* ---- routes/calendar.py: local events ----
\* calendar_events.google_event_id is declared unique (NULLs excepted), checked at commit
UniqueOk(table) ==
    \A i, j \in DOMAIN table :
        (i # j /\ table[i].google_event_id # None) => table[i].google_event_id # table[j].google_event_id

create_local_calendar_event(u, title, google_event_id) ==
    LET new_events == Insert(events, nextId.event, CalendarEvent(u, title, google_event_id))
        ok == UniqueOk(new_events)
    IN  /\ Room("event", MaxLocalEvents)
        /\ events' = IF ok THEN new_events ELSE events
        /\ nextId' = [nextId EXCEPT !.event = @ + 1]
        /\ last' = Response("create_local_calendar_event", u, nextId.event, IF ok THEN 201 ELSE 500, Commit(ok))
        /\ UNCHANGED <<accounts, connected, tasks, categories, sessions, createdFor>>

\* if event_data.<field> is not None: event.<field> = event_data.<field>
update_local_calendar_event(u, event_id, title, google_event_id) ==
    IF ~Owned(events, event_id, u) THEN Reject("update_local_calendar_event", u, event_id, 404)
    ELSE
    LET event == events[event_id]
        e1 == IF title # None THEN [event EXCEPT !.title = title] ELSE event
        e2 == IF google_event_id # None THEN [e1 EXCEPT !.google_event_id = google_event_id] ELSE e1
        new_events == [events EXCEPT ![event_id] = e2]
        ok == UniqueOk(new_events)
    IN  /\ events' = IF ok THEN new_events ELSE events
        /\ last' = Response("update_local_calendar_event", u, event_id, IF ok THEN 200 ELSE 500, Commit(ok))
        /\ UNCHANGED <<accounts, connected, tasks, categories, sessions, nextId, createdFor>>

delete_local_calendar_event(u, event_id) ==
    IF ~Owned(events, event_id, u) THEN Reject("delete_local_calendar_event", u, event_id, 404)
    ELSE
    /\ events' = Delete(events, event_id)
    /\ last' = Response("delete_local_calendar_event", u, event_id, 204, Commit(TRUE))
    /\ UNCHANGED <<accounts, connected, tasks, categories, sessions, nextId, createdFor>>

\* ---- routes/calendar.py: the user's Google calendar ----
\* a direct endpoint that does not look at what the service returned
DirectUnchecked(op, u, event_id, c, found, success) ==
    /\ Provider(c.calls, NoId)
    /\ nextId' = Bump("event", c.calls, FALSE)
    /\ last' = Response(op, u, event_id, IF Try(op, c).raised THEN Raised(c.calls) ELSE success, c.calls)
    /\ UNCHANGED <<accounts, connected, tasks, categories, sessions, events>>

\* a service call of a direct endpoint: nothing catches what it raises
Direct(op, u, event_id, c, found, success) ==
    /\ Provider(c.calls, NoId)
    /\ nextId' = Bump("event", c.calls, FALSE)
    /\ last' = Response(op, u, event_id,
                        IF Try(op, c).raised THEN Raised(c.calls) ELSE IF ~found THEN 404 ELSE success,
                        c.calls)
    /\ UNCHANGED <<accounts, connected, tasks, categories, sessions, events>>

get_google_calendar_events(u, outcomes) ==
    IF ~connected[u] THEN Reject("get_google_calendar_events", u, NoId, 400)
    ELSE \E o \in outcomes :
            Direct("get_google_calendar_events", u, NoId, fetch_calendar_events(o.tok, o.st), TRUE, 200)

create_google_calendar_event(u, date_ok, outcomes) ==
    IF ~connected[u] \/ ~date_ok THEN Reject("create_google_calendar_event", u, NoId, 400)
    ELSE \E o \in outcomes :
            /\ o.st \in CreateStatuses
            /\ Direct("create_google_calendar_event", u, NoId,
                      create_calendar_event(o.tok, o.st, nextId.remote), TRUE, 201)

update_google_calendar_event(u, event_id, date_ok, title, outcomes) ==
    IF ~connected[u] \/ ~date_ok \/ title = None
    THEN Reject("update_google_calendar_event", u, event_id, 400)
    ELSE \E o \in outcomes :
            LET c == update_calendar_event(o.tok, o.st, event_id)
            IN  Direct("update_google_calendar_event", u, event_id, c, c.value # NoId, 200)

delete_google_calendar_event(u, event_id, outcomes) ==
    IF ~connected[u] THEN Reject("delete_google_calendar_event", u, event_id, 400)
    ELSE \E o \in outcomes :
            LET c == delete_calendar_event(o.tok, o.st, event_id)
            IN  Direct("delete_google_calendar_event", u, event_id, c, c.value, 204)

\* ---- routes/analytics.py ----
\* Task.date is nullable
NoDate == -100

\* a task row with the columns the statistics read next to those of the task routes
DatedTask(u, date, priority, completed, category_id) ==
    [date |-> date, priority |-> priority, completed |-> completed]
        @@ Task(u, [title |-> "t1", location |-> None, category_id |-> category_id,
                    sync_with_google_calendar |-> FALSE])

\* a / b of Python: a fraction, with den = 0 standing for the ZeroDivisionError it raises
Div(a, b) == [num |-> a, den |-> b]

Zero == Div(0, 1)

\* part / whole * 100 without the test of whole
RateUnguarded(part, whole) == Div(part * 100, whole)

\* (part / whole * 100) if whole > 0 else 0
Rate(part, whole) == IF whole > 0 THEN Div(part * 100, whole) ELSE Zero

\* round(): the nearest integer, the even one of two equally near
RoundHalfEven(num, den) ==
    LET q == num \div den
        r == num % den
    IN  IF 2 * r < den THEN q
        ELSE IF 2 * r > den THEN q + 1
        ELSE IF q % 2 = 0 THEN q ELSE q + 1

\* round(x, 1), in tenths
Round1(x) == RoundHalfEven(x.num * 10, x.den)

\* x - y of two fractions
Minus(x, y) == Div(x.num * y.den - y.num * x.den, x.den * y.den)

\* db.query(Task).filter(Task.user_id == current_user.id).all(), as the ids of the rows
AllTasks(u) == {t \in DOMAIN tasks : tasks[t].user_id = u}

\* sum(1 for t in S if t.completed)
Completed(S) == {t \in S : tasks[t].completed}

\* [t for t in S if t.date and t.date.date() == day]
DatedOn(S, day) == {t \in S : tasks[t].date # NoDate /\ tasks[t].date = day}

\* [t for t in S if t.date and t.date.date() >= day]
DatedSince(S, day) == {t \in S : tasks[t].date # NoDate /\ tasks[t].date >= day}

\* the streak loop counting a day for any task dated on it, completed or not
RECURSIVE StreakOfAnyTask(_, _)
StreakOfAnyTask(S, current_date) ==
    IF DatedOn(S, current_date) # {}
    THEN 1 + StreakOfAnyTask(S, current_date - Day)
    ELSE 0

\* the while loop of the streak calculation, from current_date backwards
RECURSIVE Streak(_, _)
Streak(S, current_date) ==
    IF Completed(DatedOn(S, current_date)) # {}
    THEN 1 + Streak(S, current_date - Day)
    ELSE 0

\* the same loop one iteration at a time; its frame (the locals current_date and streak,
\* the number of evaluations of the loop body, and whether it has left the loop) is held
\* in last
Frame(u, pc, current_date, streak, iterations) ==
    [op |-> "current_streak", user |-> u, id |-> NoId, body |-> NoBody, status |-> 200,
     calls |-> <<>>,
     frame |-> [pc |-> pc, current_date |-> current_date, streak |-> streak,
                iterations |-> iterations]]

InLoop == last.op = "current_streak" /\ last.frame.pc = "while"

\* streak = 0; current_date = today
current_streak_begin(u) ==
    /\ ~InLoop
    /\ last' = Frame(u, "while", Today, 0, 0)
    /\ UNCHANGED <<accounts, connected, tasks, categories, sessions, events, nextId, createdFor>>

\* the loop body without current_date -= timedelta(days=1)
current_streak_iterateSameDay(all_tasks) ==
    /\ InLoop
    /\ LET f == last.frame
           day_tasks == Completed(DatedOn(all_tasks, f.current_date))
       IN  last' = IF day_tasks # {}
                   THEN Frame(last.user, "while", f.current_date, f.streak + 1,
                              f.iterations + 1)
                   ELSE Frame(last.user, "done", f.current_date, f.streak, f.iterations + 1)
    /\ UNCHANGED <<accounts, connected, tasks, categories, sessions, events, nextId, createdFor>>

\* one evaluation of the body of while True
current_streak_iterate(all_tasks) ==
    /\ InLoop
    /\ LET f == last.frame
           day_tasks == Completed(DatedOn(all_tasks, f.current_date))
       IN  last' = IF day_tasks # {}
                   THEN Frame(last.user, "while", f.current_date - Day, f.streak + 1,
                              f.iterations + 1)
                   ELSE Frame(last.user, "done", f.current_date, f.streak, f.iterations + 1)
    /\ UNCHANGED <<accounts, connected, tasks, categories, sessions, events, nextId, createdFor>>

PriorityKeys == {"high", "medium", "low"}

\* the counts with every row of another priority counted as "medium"
PriorityCountWithDefault(S) ==
    [k \in PriorityKeys |->
        Cardinality({t \in S : tasks[t].priority = k
                                \/ (k = "medium" /\ tasks[t].priority \notin PriorityKeys)})]

\* priority_stats / priority_completed: the fixed keys, counting the rows that carry them
PriorityCount(S) == [k \in PriorityKeys |-> Cardinality({t \in S : tasks[t].priority = k})]

\* the rows of S with a category, grouped by the category's name
CategoryNames(S) == {categories[tasks[t].category_id].name : t \in {x \in S : tasks[x].category_id # NoId}}

InCategory(S, name) ==
    {t \in S : tasks[t].category_id # NoId /\ categories[tasks[t].category_id].name = name}

Min(a, b) == IF a < b THEN a ELSE b

\* round(completion_rate * 0.4 + recent_rate * 0.3 + min(len(recent_tasks) / 20, 1) * 30)
ProductivityScore(completion_rate, recent_rate, recent) ==
    LET den == 20 * completion_rate.den * recent_rate.den
        num == 8 * completion_rate.num * recent_rate.den
               + 6 * recent_rate.num * completion_rate.den
               + 30 * Min(recent, 20) * completion_rate.den * recent_rate.den
    IN  IF den = 0 THEN Div(num, den) ELSE Div(RoundHalfEven(num, den), 1)

\* the answer of a statistics request; a ZeroDivisionError anywhere makes it a 500
Reply(op, u, id, fractions, response) ==
    /\ last' = [op |-> op, user |-> u, id |-> id, body |-> NoBody, calls |-> <<>>,
                status |-> IF \E x \in fractions : x.den = 0 THEN 500 ELSE 200,
                response |-> IF \E x \in fractions : x.den = 0 THEN <<>> ELSE response]
    /\ UNCHANGED <<accounts, connected, tasks, categories, sessions, events, nextId, createdFor>>

get_analytics_metrics(u) ==
    LET today == Today
        week_ago == today - 7 * Day
        month_ago == today - 30 * Day
        all_tasks == AllTasks(u)
        total_tasks == Cardinality(all_tasks)
        completed_tasks == Cardinality(Completed(all_tasks))
        completion_rate == Rate(completed_tasks, total_tasks)
        day_rate == [i \in 0..6 |->
                        LET day_tasks == DatedOn(all_tasks, today - (6 - i) * Day)
                        IN  Rate(Cardinality(Completed(day_tasks)), Cardinality(day_tasks))]
        percentage == [name \in CategoryNames(all_tasks) |->
                          Rate(Cardinality(InCategory(all_tasks, name)), total_tasks)]
        hours == [i \in 0..6 |->
                     5 * Cardinality(Completed(DatedOn(all_tasks, today - (6 - i) * Day))) + 30 + 3 * i]
        recent_tasks == DatedSince(all_tasks, week_ago)
        recent_rate == Rate(Cardinality(Completed(recent_tasks)), Cardinality(recent_tasks))
        productivity_score == ProductivityScore(completion_rate, recent_rate, Cardinality(recent_tasks))
        streak == Streak(all_tasks, today)
        month_tasks == DatedSince(all_tasks, month_ago)
        month_rate == Rate(Cardinality(Completed(month_tasks)), Cardinality(month_tasks))
        fractions == {completion_rate, recent_rate, month_rate, productivity_score}
                        \cup {day_rate[i] : i \in 0..6}
                        \cup {percentage[name] : name \in DOMAIN percentage}
    IN  Reply("get_analytics_metrics", u, NoId, fractions,
              [total_tasks |-> total_tasks,
               completed_tasks |-> completed_tasks,
               completion_rate |-> Round1(completion_rate),
               productivity_score |-> productivity_score.num,
               current_streak |-> streak,
               focus_hours_today |-> hours[6],
               goal_achievement_month |-> Round1(month_rate),
               weekly_completion |-> [i \in 0..6 |-> Round1(day_rate[i])],
               weekly_focus_hours |-> hours,
               categories |-> [name \in DOMAIN percentage |->
                                  [value |-> Cardinality(InCategory(all_tasks, name)),
                                   percentage |-> Round1(percentage[name])]],
               priority |-> [total |-> PriorityCount(all_tasks),
                             completed |-> PriorityCount(Completed(all_tasks))],
               completion_rate_change |-> Round1(Minus(recent_rate, completion_rate)),
               focus_hours_change |-> hours[6] - hours[5],
               streak_is_record |-> streak >= 10,
               month_achievement_change |-> Round1(Minus(month_rate, completion_rate)),
               \* the rows of recent_tasks: not part of what is sent
               recent_tasks |-> recent_tasks])

\* the keys in descending order
RECURSIVE SortedDescending(_)
SortedDescending(keys) ==
    IF keys = {} THEN <<>>
    ELSE LET greatest == CHOOSE k \in keys : \A j \in keys : k >= j
         IN  <<greatest>> \o SortedDescending(keys \ {greatest})

\* sorted(keys)
RECURSIVE Sorted(_)
Sorted(keys) ==
    IF keys = {} THEN <<>>
    ELSE LET least == CHOOSE k \in keys : \A j \in keys : k <= j
         IN  <<least>> \o Sorted(keys \ {least})

\* range(days)
Range(days) == 0..(days - 1)

get_daily_stats(u, days) ==
    LET today == Today
        start_date == today - (days - 1) * Day
        rows == DatedSince(AllTasks(u), start_date)
        keys == {start_date + i * Day : i \in Range(days)}
        daily_stats == [current_date \in keys |->
                           [total |-> Cardinality(DatedOn(rows, current_date)),
                            completed |-> Cardinality(Completed(DatedOn(rows, current_date)))]]
        order == Sorted(keys)
        completion_rate == [current_date \in keys |->
                               Rate(daily_stats[current_date].completed, daily_stats[current_date].total)]
    IN  Reply("get_daily_stats", u, days, {completion_rate[d] : d \in keys},
              [i \in 1..Len(order) |->
                  [date |-> order[i],
                   total |-> daily_stats[order[i]].total,
                   completed |-> daily_stats[order[i]].completed,
                   completion_rate |-> Round1(completion_rate[order[i]])]])

\* ---- routes/tasks.py: statistics ----
get_task_stats(u) ==
    LET rows == AllTasks(u)
        total_tasks == Cardinality(rows)
        completed_tasks == Cardinality(Completed(rows))
        completion_rate == Rate(completed_tasks, total_tasks)
    IN  Reply("get_task_stats", u, NoId, {completion_rate},
              [total_tasks |-> total_tasks,
               completed_tasks |-> completed_tasks,
               pending_tasks |-> total_tasks - completed_tasks,
               completion_rate |-> Round1(completion_rate),
               tasks_by_priority |-> PriorityCount(rows),
               completed_by_priority |-> PriorityCount(Completed(rows)),
               tasks_by_category |-> [name \in CategoryNames(rows) |->
                                         Cardinality(InCategory(rows, name))]])

\* ---- routes/pomodoro.py: active session and statistics ----

\* the ascending order: a is after b
After(a, b) == b.day < a.day \/ (b.day = a.day /\ b.tick < a.tick)

\* order_by(PomodoroSession.started_at.desc()): a is before b
Before(a, b) == a.day < b.day \/ (a.day = b.day /\ a.tick < b.tick)

\* .filter(user_id == current_user.id, is_completed == False).order_by(started_at.desc()).first():
\* the id of the row, or NoId for None
get_active_session(u) ==
    LET active == {s \in DOMAIN sessions : sessions[s].user_id = u /\ ~sessions[s].is_completed}
        first == {s \in active : \A o \in active : ~Before(sessions[s].started_at, sessions[o].started_at)}
    IN  /\ \E session \in IF active = {} THEN {NoId} ELSE first :
              last' = [op |-> "get_active_session", user |-> u, id |-> NoId, body |-> NoBody,
                       calls |-> <<>>, status |-> 200, response |-> session]
        /\ UNCHANGED <<accounts, connected, tasks, categories, sessions, events, nextId, createdFor>>

\* sum(s.elapsed_minutes for s in S)
RECURSIVE Elapsed(_)
Elapsed(S) ==
    IF S = {} THEN 0
    ELSE LET s == CHOOSE x \in S : TRUE
         IN  sessions[s].elapsed_minutes + Elapsed(S \ {s})

\* a count of every session, completed or not
SessionsOfAnyState(S) == S

\* [s for s in S if s.is_completed]
CompletedSessions(S) == {s \in S : sessions[s].is_completed}

get_stats(u) ==
    LET today == Today
        week_ago == today - 7 * Day
        all_sessions == {s \in DOMAIN sessions : /\ sessions[s].user_id = u
                                                 /\ sessions[s].session_type = "work"}
        today_sessions == {s \in all_sessions : sessions[s].started_at.day = today}
        week_sessions == {s \in all_sessions : sessions[s].started_at.day >= week_ago}
        day_sessions == [i \in 0..6 |->
                            {s \in all_sessions : sessions[s].started_at.day = today - (6 - i)}]
    IN  Reply("get_stats", u, NoId, {},
              [today_sessions |-> Cardinality(CompletedSessions(today_sessions)),
               today_focus_minutes |-> Elapsed(today_sessions),
               week_sessions |-> Cardinality(CompletedSessions(week_sessions)),
               week_focus_minutes |-> Elapsed(week_sessions),
               total_sessions |-> Cardinality(CompletedSessions(all_sessions)),
               total_focus_hours |-> RoundHalfEven(Elapsed(all_sessions) * 10, 60),
               daily_breakdown |-> [i \in 0..6 |->
                   [date |-> today - (6 - i),
                    sessions |-> Cardinality(CompletedSessions(day_sessions[i])),
                    focus_minutes |-> Elapsed(day_sessions[i])]]])

\* ---- services/google_calendar.py: the body of an event ----
\* a string is the sequence of its characters
Digits == <<"0", "1", "2", "3", "4", "5", "6", "7", "8", "9">>

Signs == {"-", "+"}

\* str(n)
RECURSIVE Str(_)
Str(n) ==
    IF n < 0 THEN <<"-">> \o Str(-n)
    ELSE IF n < 10 THEN <<Digits[n + 1]>>
    ELSE Str(n \div 10) \o <<Digits[(n % 10) + 1]>>

\* s.zfill(width): zeros on the left, after the sign
Zfill(s, width) ==
    LET zeros == [i \in 1..(width - Len(s)) |-> "0"]
    IN  IF Len(s) >= width THEN s
        ELSE IF s # <<>> /\ s[1] \in Signs THEN <<s[1]>> \o zeros \o Tail(s)
        ELSE zeros \o s

\* s.split(sep)
RECURSIVE Split(_, _)
Split(s, sep) ==
    IF \E i \in 1..Len(s) : s[i] = sep
    THEN LET i == CHOOSE j \in 1..Len(s) : s[j] = sep /\ \A k \in 1..(j - 1) : s[k] # sep
         IN  <<SubSeq(s, 1, i - 1)>> \o Split(SubSeq(s, i + 1, Len(s)), sep)
    ELSE <<s>>

\* the digits of s after its sign
Unsigned(s) == IF s # <<>> /\ s[1] \in Signs THEN Tail(s) ELSE s

\* int(s) does not raise ValueError
IsInt(s) ==
    /\ Unsigned(s) # <<>>
    /\ \A i \in 1..Len(Unsigned(s)) : \E n \in 0..9 : Unsigned(s)[i] = Digits[n + 1]

RECURSIVE Value(_)
Value(digits) ==
    IF digits = <<>> THEN 0
    ELSE Value(SubSeq(digits, 1, Len(digits) - 1)) * 10
         + (CHOOSE n \in 0..9 : Digits[n + 1] = digits[Len(digits)])

\* int(s), for s that IsInt
int(s) == IF s[1] = "-" THEN 0 - Value(Unsigned(s)) ELSE Value(Unsigned(s))

\* a datetime, of which the builder reads the date
Date(year, month, day) == [year |-> year, month |-> month, day |-> day]

\* date None
NoDay == Date(0, 0, 0)

IsLeap(year) == year % 4 = 0 /\ (year % 100 # 0 \/ year % 400 = 0)

DaysIn(year, month) ==
    IF month = 2 THEN (IF IsLeap(year) THEN 29 ELSE 28)
    ELSE IF month \in {4, 6, 9, 11} THEN 30
    ELSE 31

\* a calendar without leap years
NextDayNoLeap(date) ==
    IF date.day < (IF date.month = 2 THEN 28 ELSE DaysIn(date.year, date.month))
    THEN Date(date.year, date.month, date.day + 1)
    ELSE IF date.month < 12 THEN Date(date.year, date.month + 1, 1)
    ELSE Date(date.year + 1, 1, 1)

\* date + timedelta(days=1)
NextDay(date) ==
    IF date.day < DaysIn(date.year, date.month) THEN Date(date.year, date.month, date.day + 1)
    ELSE IF date.month < 12 THEN Date(date.year, date.month + 1, 1)
    ELSE Date(date.year + 1, 1, 1)

\* date.strftime("%Y-%m-%d")
Strftime(date) ==
    Zfill(Str(date.year), 4) \o <<"-">> \o Zfill(Str(date.month), 2) \o <<"-">>
        \o Zfill(Str(date.day), 2)

\* datetime.strptime(s, "%Y-%m-%d")
Strptime(s) ==
    LET parts == Split(s, "-")
    IN  Date(int(parts[1]), int(parts[2]), int(parts[3]))

\* recurrence.lower(), for the recurrences of the model
Lower(recurrence) == IF recurrence = "WEEKLY" THEN "weekly" ELSE recurrence

\* _build_recurrence_rule: the list of one rule, or None
build_recurrence_rule(recurrence) ==
    LET rrule_map == [daily |-> "RRULE:FREQ=DAILY", weekly |-> "RRULE:FREQ=WEEKLY",
                      monthly |-> "RRULE:FREQ=MONTHLY", yearly |-> "RRULE:FREQ=YEARLY"]
    IN  IF recurrence = None \/ recurrence = "none" THEN None
        ELSE IF Lower(recurrence) \in DOMAIN rrule_map THEN <<rrule_map[Lower(recurrence)]>>
        ELSE None

\* _build_event_body; now is datetime.now(timezone.utc), and a time of None or "" is <<>>
build_event_body(title, description, date, time, location, recurrence, now) ==
    LET summary == [summary |-> title,
                    description |-> IF description = None THEN "" ELSE description]
        located == IF location # None THEN summary @@ [location |-> location] ELSE summary
        recurrence_rule == build_recurrence_rule(recurrence)
        event == IF recurrence_rule # None THEN located @@ [recurrence |-> recurrence_rule]
                 ELSE located
        date_str == Strftime(date)
        all_day == [start |-> [date |-> date_str],
                    end |-> [date |-> Strftime(NextDay(Strptime(date_str)))]]
        time_parts == Split(time, ":")
        raises == \/ ~IsInt(time_parts[1])
                  \/ Len(time_parts) > 1 /\ ~IsInt(time_parts[2])
        hour == int(time_parts[1])
        minute == IF Len(time_parts) > 1 THEN int(time_parts[2]) ELSE 0
        start_datetime == date_str \o <<"T">> \o Zfill(Str(hour), 2) \o <<":">>
                              \o Zfill(Str(minute), 2) \o <<":", "0", "0">>
        end_hour == IF hour + 1 >= 24 THEN 0 ELSE hour + 1
        end_date_str == IF hour + 1 >= 24 THEN Strftime(NextDay(Strptime(date_str)))
                        ELSE date_str
        end_datetime == end_date_str \o <<"T">> \o Zfill(Str(end_hour), 2) \o <<":">>
                            \o Zfill(Str(minute), 2) \o <<":", "0", "0">>
    IN  IF date # NoDay
        THEN IF time # <<>>
             THEN IF raises THEN event @@ all_day
                  ELSE event @@ [start |-> [dateTime |-> start_datetime, timeZone |-> "UTC"],
                                 end |-> [dateTime |-> end_datetime, timeZone |-> "UTC"]]
             ELSE event @@ all_day
        ELSE event @@ [start |-> [date |-> Strftime(now)],
                       end |-> [date |-> Strftime(NextDay(now))]]

\* create_calendar_event, update_calendar_event: event_body = _build_event_body(...) of
\* the columns of a task
BuildEventBody(task_id, now) ==
    /\ task_id \in DOMAIN tasks
    /\ last' = [op |-> "_build_event_body", user |-> NoId, id |-> task_id, body |-> NoBody,
                calls |-> <<>>, status |-> 200,
                response |-> LET task == tasks[task_id]
                             IN  build_event_body(task.title, task.description, task.date,
                                                  task.time, task.location, task.recurrence,
                                                  now)]
    /\ UNCHANGED <<accounts, connected, tasks, categories, sessions, events, nextId, createdFor>>

\* ---- requests ----
TaskIds == 1..MaxTasks
CategoryIds == 1..MaxCategories
SessionIds == 1..MaxSessions
LocalEventIds == 1..MaxLocalEvents
RemoteEventIds == 1..MaxRemoteEvents

\* TaskCreate bodies with the given locations and category references
CreateBodies(titles, locations, refs) ==
    [title : titles, location : locations, category_id : refs, sync_with_google_calendar : BOOLEAN]

\* TaskUpdate bodies: every field defaults to None (FALSE, NoId); fields_set are the
\* fields the request carries
UpdateBodies(fields, locations, refs) ==
    {b \in [fields_set : SUBSET fields, title : Titles \cup {None}, completed : BOOLEAN,
            location : locations \cup {None}, category_id : refs,
            sync_with_google_calendar : BOOLEAN] :
        /\ ("title" \in b.fields_set) = (b.title # None)
        /\ "completed" \notin b.fields_set => ~b.completed
        /\ IF "location" \in b.fields_set THEN b.location \in locations ELSE b.location = None
        /\ "category_id" \notin b.fields_set => b.category_id = NoId
        /\ "sync_with_google_calendar" \notin b.fields_set => ~b.sync_with_google_calendar}

TaskRequest(u, creates, updates, outcomes) ==
    \/ \E body \in creates : create_task(u, body, WeatherStatuses, outcomes)
    \/ \E task_id \in TaskIds : get_task(u, task_id)
    \/ \E task_id \in TaskIds, body \in updates : update_task(u, task_id, body, WeatherStatuses, outcomes)
    \/ \E task_id \in TaskIds : delete_task(u, task_id, outcomes)
    \/ \E task_id \in TaskIds : sync_task_to_calendar(u, task_id, outcomes)
    \/ \E task_id \in TaskIds : unsync_task_from_calendar(u, task_id, outcomes)

CategoryRequest(u) ==
    \/ \E name \in Titles : create_category(u, name)
    \/ \E category_id \in CategoryIds, name \in Titles : update_category(u, category_id, name)
    \/ \E category_id \in CategoryIds : delete_category(u, category_id)

SessionRequest(u, session_types) ==
    \/ \E session_type \in session_types : create_session(u, session_type)
    \/ \E session_id \in SessionIds, elapsed_minutes \in 0..MaxElapsed, is_completed \in BOOLEAN :
           update_session(u, session_id, elapsed_minutes, is_completed)
    \/ \E session_id \in SessionIds : delete_session(u, session_id)

LocalEventRequest(u) ==
    \/ \E title \in Titles, google_event_id \in GoogleIds \cup {None} :
           create_local_calendar_event(u, title, google_event_id)
    \/ \E event_id \in LocalEventIds, title \in Titles \cup {None}, google_event_id \in GoogleIds \cup {None} :
           update_local_calendar_event(u, event_id, title, google_event_id)
    \/ \E event_id \in LocalEventIds : delete_local_calendar_event(u, event_id)

GoogleEventRequest(u, outcomes) ==
    \/ get_google_calendar_events(u, outcomes)
    \/ \E date_ok \in BOOLEAN : create_google_calendar_event(u, date_ok, outcomes)
    \/ \E event_id \in RemoteEventIds, date_ok \in BOOLEAN, title \in Titles \cup {None} :
           update_google_calendar_event(u, event_id, date_ok, title, outcomes)
    \/ \E event_id \in RemoteEventIds : delete_google_calendar_event(u, event_id, outcomes)

\* ---- Spec: one user's task requests and their synchronisation with Google ----
SyncCreates == CreateBodies({"t1"}, Locations \cup {None}, {NoId})

SyncUpdates == UpdateBodies({"location", "sync_with_google_calendar"}, Locations, {NoId})

Next ==
    \E u \in {1} :
        \/ \E refresh_token \in BOOLEAN : google_callback(u, refresh_token)
        \/ TaskRequest(u, SyncCreates, SyncUpdates, Outcomes)

Spec == Init /\ [][Next]_vars

\* ---- SpecCalendar: the direct Google calendar endpoints, next to synced tasks ----
CalendarCreates == CreateBodies({"t1"}, {None}, {NoId})

CalendarUpdates == UpdateBodies({"sync_with_google_calendar"}, {None}, {NoId})

NextCalendar ==
    \E u \in {1} :
        \/ \E refresh_token \in BOOLEAN : google_callback(u, refresh_token)
        \/ GoogleEventRequest(u, Outcomes)
        \/ TaskRequest(u, CalendarCreates, CalendarUpdates, Outcomes)

SpecCalendar == Init /\ [][NextCalendar]_vars

\* ---- SpecOwn: two users' requests on tasks, categories, sessions and local events ----
OwnCreates == CreateBodies({"t1"}, {None}, {NoId} \cup CategoryIds)

OwnUpdates == UpdateBodies({"title", "category_id"}, {None}, {NoId} \cup CategoryIds)

OwnOutcomes == {o \in Outcomes : o.tok = 200 /\ o.st = 200}

\* user 1 has signed in with Google, user 2 with a password
InitOwn ==
    /\ connected = [u \in Users |-> u = 1]
    /\ tasks = <<>>
    /\ categories = <<>>
    /\ sessions = <<>>
    /\ events = <<>>
    /\ nextId = [task |-> 1, category |-> 1, session |-> 1, event |-> 1, remote |-> 1]
    /\ createdFor = <<>>
    /\ users = Registered
    /\ inflight = <<>>
    /\ settings = Settings(Undeclared)
    /\ last = Response("init", NoId, NoId, 200, <<>>)

NextOwn ==
    \E u \in Users :
        \/ TaskRequest(u, OwnCreates, OwnUpdates, OwnOutcomes)
        \/ CategoryRequest(u)
        \/ SessionRequest(u, {"work"})
        \/ LocalEventRequest(u)

SpecOwn == InitOwn /\ [][NextOwn]_vars

\* ---- SpecCategory: one user's two categories, each with a task ----
TwoIds == {1, 2}

CategoryUpdates == UpdateBodies({"title", "category_id"}, {None}, TwoIds)

\* the store after two create_category and two create_task requests of user 1
InitCategory ==
    /\ connected = [u \in Users |-> FALSE]
    /\ tasks = [t \in TwoIds |-> Task(1, [title |-> "t1", location |-> None, category_id |-> t,
                                        sync_with_google_calendar |-> FALSE])]
    /\ categories = [c \in TwoIds |-> Category(1, "t1")]
    /\ sessions = <<>>
    /\ events = <<>>
    /\ nextId = [task |-> 3, category |-> 3, session |-> 1, event |-> 1, remote |-> 1]
    /\ createdFor = <<>>
    /\ users = Registered
    /\ inflight = <<>>
    /\ settings = Settings(Undeclared)
    /\ last = Response("init", NoId, NoId, 200, <<>>)

NextCategory ==
    \E u \in {1} :
        \/ \E task_id \in TwoIds : get_task(u, task_id)
        \/ \E task_id \in TwoIds, body \in CategoryUpdates :
               update_task(u, task_id, body, WeatherStatuses, OwnOutcomes)
        \/ \E category_id \in TwoIds, name \in Titles : update_category(u, category_id, name)
        \/ \E category_id \in TwoIds : delete_category(u, category_id)

SpecCategory == InitCategory /\ [][NextCategory]_vars

\* ---- SpecAnalytics: the metrics of every small table of dated tasks ----
\* today, yesterday and the day before, the days around the start of the trailing week,
\* tomorrow, no date
Dates == {NoDate, -8, -7, -2, -1, Today, 1}

Priorities == {"high", "low", "urgent", None}

AnalyticsRows ==
    {DatedTask(u, date, priority, completed, category_id) :
        u \in Users, date \in Dates, priority \in Priorities, completed \in BOOLEAN,
        category_id \in {NoId, 1}}

\* a store of one category and up to MaxTasks tasks drawn from rows
InitTable(rows) ==
    /\ connected = [u \in Users |-> FALSE]
    /\ \E n \in 0..MaxTasks : tasks \in [1..n -> rows]
    /\ categories = <<Category(1, "t1")>>
    /\ sessions = <<>>
    /\ events = <<>>
    /\ nextId = [task |-> Len(tasks) + 1, category |-> 2, session |-> 1, event |-> 1, remote |-> 1]
    /\ createdFor = <<>>
    /\ users = Registered
    /\ inflight = <<>>
    /\ settings = Settings(Undeclared)
    /\ last = Response("init", NoId, NoId, 200, <<>>)

InitAnalytics == InitTable(AnalyticsRows)

NextAnalytics ==
    \E u \in Users :
        \/ get_analytics_metrics(u)
        \/ get_task_stats(u)

SpecAnalytics == InitAnalytics /\ [][NextAnalytics]_vars

\* ---- SpecStreak: the streak loop on every small table of tasks of the last days ----
StreakRows ==
    {DatedTask(u, date, "high", completed, NoId) :
        u \in Users, date \in {NoDate, -2, -1, Today, 1}, completed \in BOOLEAN}

InitStreak == InitTable(StreakRows)

NextStreak ==
    \/ \E u \in Users : current_streak_begin(u)
    \/ current_streak_iterate(AllTasks(last.user))

\* the loop runs inside one request: once begun, it is executed to its end
SpecStreak ==
    InitStreak /\ [][NextStreak]_vars /\ WF_vars(current_streak_iterate(AllTasks(last.user)))

\* ---- SpecDaily: every statistic of every small table of tasks of the last days ----
MaxDays == 3

DailyRows ==
    {DatedTask(u, date, "high", completed, category_id) :
        u \in Users, date \in {NoDate, -3, -2, -1, Today, 1}, completed \in BOOLEAN,
        category_id \in {NoId, 1}}

InitDaily == InitTable(DailyRows)

NextDaily ==
    \E u \in Users :
        \/ \E days \in 0..MaxDays : get_daily_stats(u, days)
        \/ get_analytics_metrics(u)
        \/ get_task_stats(u)

SpecDaily == InitDaily /\ [][NextDaily]_vars

\* ---- SpecStats: the pomodoro statistics of every small table of sessions ----
MaxDrawnSessions == 3

SessionTypes == {"work", "shortBreak", "longBreak"}

Minutes == {10, 25}

SessionRows ==
    {[PomodoroSession(u, session_type, StartedAt(day, 0))
         EXCEPT !.elapsed_minutes = elapsed_minutes, !.is_completed = is_completed,
                !.completed_at = IF is_completed THEN CompletedAt(day) ELSE <<>>] :
        u \in Users, session_type \in SessionTypes, day \in {-1 * Day, Today},
        elapsed_minutes \in Minutes, is_completed \in BOOLEAN}

\* a store of up to MaxDrawnSessions sessions drawn from SessionRows, started in the order
\* of their ids
InitStats ==
    /\ connected = [u \in Users |-> FALSE]
    /\ tasks = <<>>
    /\ categories = <<>>
    /\ \E n \in 0..MaxDrawnSessions : \E drawn \in [1..n -> SessionRows] :
           /\ \A s, o \in 1..n : s < o => drawn[s].started_at.day <= drawn[o].started_at.day
           /\ sessions = [s \in 1..n |-> [drawn[s] EXCEPT !.started_at.tick = s]]
    /\ events = <<>>
    /\ nextId = [task |-> 1, category |-> 1, session |-> Len(sessions) + 1, event |-> 1,
                 remote |-> 1]
    /\ createdFor = <<>>
    /\ users = Registered
    /\ inflight = <<>>
    /\ settings = Settings(Undeclared)
    /\ last = Response("init", NoId, NoId, 200, <<>>)

NextStats ==
    \E u \in Users :
        \/ get_stats(u)
        \/ get_active_session(u)

SpecStats == InitStats /\ [][NextStats]_vars

\* ---- SpecWeek: the statistics of work sessions started around the start of the week ----
\* work sessions started today, six, seven or eight days ago
WeekRows ==
    {[PomodoroSession(u, "work", StartedAt(day, 0))
         EXCEPT !.elapsed_minutes = elapsed_minutes, !.is_completed = is_completed,
                !.completed_at = IF is_completed THEN CompletedAt(day) ELSE <<>>] :
        u \in Users, day \in {-8 * Day, -7 * Day, -6 * Day, Today},
        elapsed_minutes \in Minutes, is_completed \in BOOLEAN}

\* a store of up to MaxDrawnSessions sessions drawn from WeekRows, started in the order of
\* their ids
InitWeek ==
    /\ connected = [u \in Users |-> FALSE]
    /\ tasks = <<>>
    /\ categories = <<>>
    /\ \E n \in 0..MaxDrawnSessions : \E drawn \in [1..n -> WeekRows] :
           /\ \A s, o \in 1..n : s < o => drawn[s].started_at.day <= drawn[o].started_at.day
           /\ sessions = [s \in 1..n |-> [drawn[s] EXCEPT !.started_at.tick = s]]
    /\ events = <<>>
    /\ nextId = [task |-> 1, category |-> 1, session |-> Len(sessions) + 1, event |-> 1,
                 remote |-> 1]
    /\ createdFor = <<>>
    /\ users = Registered
    /\ inflight = <<>>
    /\ settings = Settings(Undeclared)
    /\ last = Response("init", NoId, NoId, 200, <<>>)

NextWeek == \E u \in Users : get_stats(u)

SpecWeek == InitWeek /\ [][NextWeek]_vars

\* ---- SpecPomodoro: two users' requests on a few started sessions ----
StartedRows ==
    {[PomodoroSession(u, "work", StartedAt(Today, 0))
         EXCEPT !.is_completed = is_completed,
                !.completed_at = IF is_completed THEN CompletedAt(Today) ELSE <<>>] :
        u \in Users, is_completed \in BOOLEAN}

\* a store of up to MaxDrawnSessions sessions, each as create_session left it or completed
\* since, started in the order of their ids
InitPomodoro ==
    /\ connected = [u \in Users |-> FALSE]
    /\ tasks = <<>>
    /\ categories = <<>>
    /\ \E n \in 0..MaxDrawnSessions : \E drawn \in [1..n -> StartedRows] :
           sessions = [s \in 1..n |-> [drawn[s] EXCEPT !.started_at.tick = s]]
    /\ events = <<>>
    /\ nextId = [task |-> 1, category |-> 1, session |-> Len(sessions) + 1, event |-> 1,
                 remote |-> 1]
    /\ createdFor = <<>>
    /\ users = Registered
    /\ inflight = <<>>
    /\ settings = Settings(Undeclared)
    /\ last = Response("init", NoId, NoId, 200, <<>>)

NextPomodoro ==
    \E u \in Users :
        \/ create_session(u, "work")
        \/ \E session_id \in 1..MaxDrawnSessions, elapsed_minutes \in 0..MaxElapsed,
              is_completed \in BOOLEAN :
               update_session(u, session_id, elapsed_minutes, is_completed)
        \/ \E session_id \in 1..MaxDrawnSessions : delete_session(u, session_id)
        \/ get_active_session(u)

SpecPomodoro == InitPomodoro /\ [][NextPomodoro]_vars

\* ---- SpecBuild: the event bodies of a few dates and times ----
\* the example of the specification, ends of months and of a year, leap and common years
BuildDates ==
    {Date(2025, 3, 10), Date(2025, 3, 31), Date(2025, 4, 30), Date(2025, 12, 31),
     Date(2025, 2, 28), Date(2024, 2, 28), Date(2024, 2, 29), Date(2000, 2, 28),
     Date(1900, 2, 28), Date(2025, 1, 9)}

\* HH:MM
Clock(hour, minute) == Zfill(Str(hour), 2) \o <<":">> \o Zfill(Str(minute), 2)

\* "9", "9:5", "23:30:45", "24:00", "ab:30", "12:", "-1:30", "10:75"
OddTimes ==
    {<<"9">>, <<"9", ":", "5">>, <<"2", "3", ":", "3", "0", ":", "4", "5">>,
     <<"2", "4", ":", "0", "0">>, <<"a", "b", ":", "3", "0">>, <<"1", "2", ":">>,
     <<"-", "1", ":", "3", "0">>, <<"1", "0", ":", "7", "5">>}

BuildTimes ==
    {<<>>} \cup {Clock(hour, minute) : hour \in {0, 9, 22, 23}, minute \in {0, 5, 30, 59}}
           \cup OddTimes

Recurrences == {None, "none", "daily", "WEEKLY", "hourly"}

\* the columns of a task that the builder reads
BuildRows ==
    [title : {"t1"}, description : {None}, date : BuildDates \cup {NoDay}, time : BuildTimes,
     location : Locations \cup {None}, recurrence : Recurrences]

\* a store of one task drawn from BuildRows
InitBuild ==
    /\ connected = [u \in Users |-> FALSE]
    /\ \E row \in BuildRows : tasks = <<row>>
    /\ categories = <<>>
    /\ sessions = <<>>
    /\ events = <<>>
    /\ nextId = [task |-> 2, category |-> 1, session |-> 1, event |-> 1, remote |-> 1]
    /\ createdFor = <<>>
    /\ users = Registered
    /\ inflight = <<>>
    /\ settings = Settings(Undeclared)
    /\ last = Response("init", NoId, NoId, 200, <<>>)

NextBuild == \E task_id \in {1}, now \in BuildDates : BuildEventBody(task_id, now)

SpecBuild == InitBuild /\ [][NextBuild]_vars

\* ---- SpecFrame: one user's updates of a task with every editable column ----
MaxBodyFields == 2

\* the columns of TaskUpdate
Editable ==
    {"title", "description", "date", "time", "completed", "priority", "location",
     "category_id", "sync_with_google_calendar"}

\* a task row with every column that update_task can assign, as create_task leaves it for
\* a body with the title "t1" only
FullTask(u) ==
    [description |-> None, time |-> <<>>]
        @@ DatedTask(u, NoDate, "medium", FALSE, NoId)

\* TaskUpdate bodies of at most MaxBodyFields fields
FrameUpdates ==
    {b \in [fields_set : SUBSET Editable, title : {"t2", None}, description : {"d1", None},
            date : {Today, NoDate}, time : {Clock(9, 30), <<>>}, completed : BOOLEAN,
            priority : {"high", None}, location : Locations \cup {None},
            category_id : {1, NoId}, sync_with_google_calendar : BOOLEAN] :
        /\ Cardinality(b.fields_set) <= MaxBodyFields
        /\ ("title" \in b.fields_set) = (b.title # None)
        /\ ("description" \in b.fields_set) = (b.description # None)
        /\ ("date" \in b.fields_set) = (b.date # NoDate)
        /\ ("time" \in b.fields_set) = (b.time # <<>>)
        /\ "completed" \notin b.fields_set => ~b.completed
        /\ ("priority" \in b.fields_set) = (b.priority # None)
        /\ ("location" \in b.fields_set) = (b.location # None)
        /\ "category_id" \notin b.fields_set => b.category_id = NoId
        /\ "sync_with_google_calendar" \notin b.fields_set => ~b.sync_with_google_calendar}

\* user 1, not signed in with Google, has a category and two tasks
InitFrame ==
    /\ connected = [u \in Users |-> FALSE]
    /\ tasks = <<FullTask(1), FullTask(1)>>
    /\ categories = <<Category(1, "t1")>>
    /\ sessions = <<>>
    /\ events = <<>>
    /\ nextId = [task |-> 3, category |-> 2, session |-> 1, event |-> 1, remote |-> 1]
    /\ createdFor = <<>>
    /\ users = Registered
    /\ inflight = <<>>
    /\ settings = Settings(Undeclared)
    /\ last = Response("init", NoId, NoId, 200, <<>>)

NextFrame ==
    \E u \in {1}, task_id \in {1}, body \in FrameUpdates :
        update_task(u, task_id, body, WeatherStatuses, OwnOutcomes)

SpecFrame == InitFrame /\ [][NextFrame]_vars

\* ---- SpecAuth: interleaved registrations, first logins with Google and resets ----
MaxInflight == 2

FrontendUrls == {Undeclared, "http://localhost:3000", "https://taskleaf.example.org"}

\* an empty store, under each of the settings; the Google account of Subs[u] has the
\* email Emails[u]
InitAuth ==
    /\ connected = <<>>
    /\ tasks = <<>>
    /\ categories = <<>>
    /\ sessions = <<>>
    /\ events = <<>>
    /\ nextId = [task |-> 1, category |-> 1, session |-> 1, event |-> 1, remote |-> 1]
    /\ createdFor = <<>>
    /\ last = Response("init", NoId, NoId, 200, <<>>)
    /\ users = <<>>
    /\ inflight = <<>>
    /\ \E frontend_url \in FrontendUrls : settings = Settings(frontend_url)

NextAuth ==
    \/ \E r \in 1..MaxInflight, u \in Users : register_query(r, Emails[u])
    \/ \E r \in 1..MaxInflight : register_commit(r)
    \/ \E r \in 1..MaxInflight, u \in Users, refresh_token \in BOOLEAN :
           google_callback_query(r, Emails[u], Subs[u], refresh_token)
    \/ \E r \in 1..MaxInflight : google_callback_commit(r)
    \/ \E u \in Users : forgot_password(Emails[u])

SpecAuth == InitAuth /\ [][NextAuth]_vars

\* ---- SpecRace: one user's overlapping update and sync requests on one task ----
\* bodies that rename the task or enable its synchronisation (no body disables it, so no
\* event of this specification is deleted)
RaceUpdates ==
    {b \in UpdateBodies({"title", "sync_with_google_calendar"}, {None}, {NoId}) :
        "sync_with_google_calendar" \in b.fields_set => b.sync_with_google_calendar}

\* user 1 has signed in with Google and has one task, not synchronised
InitRace ==
    /\ connected = [u \in Users |-> u = 1]
    /\ tasks = <<Task(1, [title |-> "t1", location |-> None, category_id |-> NoId,
                          sync_with_google_calendar |-> FALSE])>>
    /\ categories = <<>>
    /\ sessions = <<>>
    /\ events = <<>>
    /\ nextId = [task |-> 2, category |-> 1, session |-> 1, event |-> 1, remote |-> 1]
    /\ createdFor = <<>>
    /\ users = Registered
    /\ inflight = <<>>
    /\ settings = Settings(Undeclared)
    /\ last = Response("init", NoId, NoId, 200, <<>>)

NextRace ==
    \E r \in 1..MaxInflight, u \in {1}, task_id \in {1} :
        \/ \E body \in RaceUpdates : update_task_load(r, u, task_id, body)
        \/ update_task_resume(r, Outcomes)
        \/ sync_task_to_calendar_load(r, u, task_id)
        \/ sync_task_to_calendar_resume(r, Outcomes)

SpecRace == InitRace /\ [][NextRace]_vars

\* ---- properties of the synchronisation of tasks with Google (Spec) ----
IsToken(c) == c.call = "token"

\* the calendar service functions a request invoked, in program order, each with the
\* event id it was given
Invoked(calls) ==
    LET tokens == SelectSeq(calls, IsToken)
    IN  [i \in 1..Len(tokens) |-> <<tokens[i].fn, tokens[i].eid>>]

\* the provider event requests of one kind a request sent
Sent(calls, kind) == {i \in 1..Len(calls) : calls[i].call = kind}

\* a request invoked create_calendar_event and no event came of it
FailedCreate(calls) ==
    /\ \E i \in 1..Len(calls) : calls[i].fn = "create_calendar_event"
    /\ ~Created(calls)

\* C1: a task's google_calendar_event_id is non-null only if a remote create call issued
\* for that task returned successfully and the stored id is the id that call returned; a
\* failed remote create (by create_task, update_task or sync-to-calendar) leaves the task
\* persisted with the id null
C1_EventIdComesFromCreate ==
    /\ \A t \in DOMAIN tasks :
          LET e == tasks[t].google_calendar_event_id
          IN  e # NoId => e \in DOMAIN createdFor /\ createdFor[e] = t
    /\ (last.op \in {"create_task", "update_task", "sync_task_to_calendar"} /\ FailedCreate(last.calls))
          => last.id \in DOMAIN tasks /\ tasks[last.id].google_calendar_event_id = NoId

\* one task holds the id of its event, and the create call for another task just failed
C1_Witness ==
    /\ last.op = "create_task"
    /\ FailedCreate(last.calls)
    /\ last.id \in DOMAIN tasks
    /\ \E t \in DOMAIN tasks \ {last.id} : tasks[t].google_calendar_event_id # NoId

\* the row of the reconciliation table for (old remote id, new sync flag)
Table(old_id, new_sync) ==
    IF old_id = NoId /\ new_sync THEN << <<"create_calendar_event", NoId>> >>
    ELSE IF old_id # NoId /\ new_sync THEN << <<"update_calendar_event", old_id>> >>
    ELSE IF old_id # NoId /\ ~new_sync THEN << <<"delete_calendar_event", old_id>> >>
    ELSE <<>>

\* C2: an update_task request of a user with a refresh credential invokes exactly the
\* calendar call of the reconciliation table for (old remote id, new sync flag): create,
\* update by id, delete by id, or none; a user without a credential invokes none
C2_ReconciliationTable ==
    [][(last'.op = "update_task" /\ Owned(tasks, last'.id, last'.user))
       => Invoked(last'.calls) =
              IF connected[last'.user]
              THEN Table(tasks[last'.id].google_calendar_event_id,
                         tasks'[last'.id].sync_with_google_calendar)
              ELSE <<>>]_vars

\* an update of a synced task has updated its event in place
C2_Witness ==
    /\ last.op = "update_task"
    /\ last.id \in DOMAIN tasks
    /\ tasks[last.id].google_calendar_event_id # NoId
    /\ \E i \in Sent(last.calls, "update") :
          last.calls[i].eid = tasks[last.id].google_calendar_event_id /\ last.calls[i].res = 200

\* an update_task request that turns sync on for the caller's task
EnablesSync(request) ==
    /\ request.op = "update_task"
    /\ Owned(tasks, request.id, request.user)
    /\ connected[request.user]
    /\ ~tasks[request.id].sync_with_google_calendar
    /\ tasks[request.id].google_calendar_event_id = NoId
    /\ "sync_with_google_calendar" \in request.body.fields_set
    /\ request.body.sync_with_google_calendar

\* C3: when update_task moves a task from (sync=false, id=null) to sync=true for a user with
\* a credential, exactly one remote create call is made; if it succeeds the task's id becomes
\* the id the provider returned, if it fails the id stays null, and in both cases the request
\* succeeds and commits every field the request carries
C3_SyncEnabled ==
    [][EnablesSync(last')
       => /\ Invoked(last'.calls) = << <<"create_calendar_event", NoId>> >>
          /\ Cardinality(Sent(last'.calls, "create")) <= 1
          /\ last'.status = 200
          /\ \A f \in last'.body.fields_set : tasks'[last'.id][f] = last'.body[f]
          /\ tasks'[last'.id].google_calendar_event_id =
                IF Created(last'.calls) THEN nextId.remote ELSE NoId
          /\ Created(last'.calls) => createdFor'[nextId.remote] = last'.id]_vars

\* sync was turned on together with a new location, and the provider refused the create
C3_Witness ==
    /\ last.op = "update_task"
    /\ last.status = 200
    /\ last.body.fields_set = {"location", "sync_with_google_calendar"}
    /\ \E i \in Sent(last.calls, "create") : last.calls[i].res = 500
    /\ tasks[last.id].sync_with_google_calendar
    /\ tasks[last.id].location = last.body.location
    /\ tasks[last.id].google_calendar_event_id = NoId

\* an update_task request that turns sync off for the caller's synced task
DisablesSync(request) ==
    /\ request.op = "update_task"
    /\ Owned(tasks, request.id, request.user)
    /\ connected[request.user]
    /\ tasks[request.id].sync_with_google_calendar
    /\ tasks[request.id].google_calendar_event_id # NoId
    /\ "sync_with_google_calendar" \in request.body.fields_set
    /\ ~request.body.sync_with_google_calendar

\* C4: when update_task moves a task from (sync=true, id=X) to sync=false, exactly one
\* remote delete call is made for X and the task's google_calendar_event_id is null after
\* the request, whatever the outcome of the delete (success, 404, another provider failure,
\* a failed token exchange)
C4_SyncDisabledClearsId ==
    [][DisablesSync(last')
       => /\ Invoked(last'.calls) =
                << <<"delete_calendar_event", tasks[last'.id].google_calendar_event_id>> >>
          /\ tasks'[last'.id].google_calendar_event_id = NoId]_vars

\* a delete_task request for the caller's task that carries a remote event id
DeletesSynced(request) ==
    /\ request.op = "delete_task"
    /\ Owned(tasks, request.id, request.user)
    /\ tasks[request.id].google_calendar_event_id # NoId

\* C5: delete_task on a task that carries a remote event id attempts the remote deletion
\* before the local one, and whatever comes of it (success, 404, failure, no credential) the
\* task is removed and the request succeeds; its id is never given to another task, and a
\* read of an absent task id answers not-found
C5_DeleteRemoteThenLocal ==
    [][/\ DeletesSynced(last')
          => /\ Invoked(last'.calls) =
                   IF connected[last'.user]
                   THEN << <<"delete_calendar_event", tasks[last'.id].google_calendar_event_id>> >>
                   ELSE <<>>
             /\ last'.calls[Len(last'.calls)] = Commit(TRUE)[1]
             /\ Sent(last'.calls, "commit") = {Len(last'.calls)}
             /\ last'.status = 204
             /\ last'.id \notin DOMAIN tasks'
       /\ \A t \in TaskIds : (t < nextId.task /\ t \notin DOMAIN tasks) => t \notin DOMAIN tasks'
       /\ nextId'.task >= nextId.task
       /\ (last'.op = "get_task" /\ last'.id \notin DOMAIN tasks) => last'.status = 404]_vars

\* a synced task was removed although the provider refused to delete its event
C5_Witness ==
    /\ last.op = "delete_task"
    /\ last.status = 204
    /\ last.id \notin DOMAIN tasks
    /\ \E i \in Sent(last.calls, "delete") : last.calls[i].res = 500 /\ i < Len(last.calls)

\* C6: create_task persists exactly one new task owned by the caller and answers success
\* whatever the outcome of the weather lookup and of the calendar create call: a failed
\* weather lookup leaves weather_data null, a failed or skipped calendar create leaves
\* google_calendar_event_id null
C6_CreateAlwaysPersists ==
    [][(last'.op = "create_task" /\ ForeignKeyOk(Task(last'.user, last'.body)))
       => /\ last'.status = 201
          /\ last'.id \notin DOMAIN tasks
          /\ DOMAIN tasks' = DOMAIN tasks \cup {last'.id}
          /\ \A t \in DOMAIN tasks : tasks'[t] = tasks[t]
          /\ tasks'[last'.id].user_id = last'.user
          /\ \A f \in DOMAIN last'.body : tasks'[last'.id][f] = last'.body[f]
          /\ (\A i \in Sent(last'.calls, "weather") : last'.calls[i].res # 200)
                => tasks'[last'.id].weather_data = None
          /\ ~Created(last'.calls) => tasks'[last'.id].google_calendar_event_id = NoId]_vars

\* a task was created while both the weather lookup and the calendar create failed
C6_Witness ==
    /\ last.op = "create_task"
    /\ last.status = 201
    /\ \E i \in Sent(last.calls, "weather") : last.calls[i].res = NetErr
    /\ \E i \in Sent(last.calls, "create") : last.calls[i].res = 500
    /\ last.id \in DOMAIN tasks
    /\ tasks[last.id].weather_data = None
    /\ tasks[last.id].google_calendar_event_id = NoId

\* ---- properties of the calls to Google (SpecCalendar) ----
DirectOps ==
    {"get_google_calendar_events", "create_google_calendar_event",
     "update_google_calendar_event", "delete_google_calendar_event"}

\* the provider request a direct endpoint is for, and the answers that mean it was done
Purpose(op) ==
    CASE op = "get_google_calendar_events" -> [kind |-> "list", done |-> {200}]
      [] op = "create_google_calendar_event" -> [kind |-> "create", done |-> {200, 201}]
      [] op = "update_google_calendar_event" -> [kind |-> "update", done |-> {200, 201}]
      [] op = "delete_google_calendar_event" -> [kind |-> "delete", done |-> {200, 204}]

\* C7: on the direct Google calendar endpoints (fetch, create, update, delete) every remote
\* failure reaches the caller as an error response: a provider 404 on update or delete gives
\* a 404 response, any other provider or token-exchange failure gives a failure response,
\* and no request reports success when the remote action did not take place
C7_DirectFailuresSurface ==
    last.op \in DirectOps =>
        LET purpose == Purpose(last.op)
            answers == {last.calls[i].res : i \in Sent(last.calls, purpose.kind)}
        IN  /\ last.status < 400 => answers \cap purpose.done # {}
            /\ (\E i \in 1..Len(last.calls) : last.calls[i].res \notin {200, 201, 204})
                  => last.status >= 400
            /\ (last.op \in {"update_google_calendar_event", "delete_google_calendar_event"}
                /\ 404 \in answers) => last.status = 404

\* the provider answered 404 to a direct delete, and so did the endpoint
C7_Witness ==
    /\ last.op = "delete_google_calendar_event"
    /\ \E i \in Sent(last.calls, "delete") : last.calls[i].res = 404
    /\ last.status = 404

ProviderKinds == {"list", "create", "update", "delete"}

\* C8: every provider event call (list, create, update, delete) directly follows, within the
\* same request and the same service function, a token exchange that succeeded; after a
\* failed token exchange, or for a user without a refresh credential, the request makes no
\* provider event call
C8_TokenBeforeProviderCall ==
    [][last'.op \notin {"init", "google_callback"}
       => LET calls == last'.calls IN
          /\ \A i \in 1..Len(calls) :
                calls[i].call \in ProviderKinds
                   => /\ i > 1
                      /\ calls[i - 1].call = "token"
                      /\ calls[i - 1].res = 200
                      /\ calls[i - 1].fn = calls[i].fn
                      /\ calls[i - 1].eid = calls[i].eid
          /\ \A i \in Sent(calls, "token") :
                calls[i].res # 200 => \A j \in 1..Len(calls) : calls[j].call \notin ProviderKinds
          /\ ~connected[last'.user]
                => \A i \in 1..Len(calls) : calls[i].call \notin ProviderKinds \cup {"token"}]_vars

\* the token exchange of a task deletion failed, and the provider was not asked
C8_Witness ==
    /\ last.op = "delete_task"
    /\ \E i \in Sent(last.calls, "token") : last.calls[i].res = 400
    /\ Sent(last.calls, "delete") = {}
    /\ last.status = 204

\* ---- properties of the rows of two users (SpecOwn) ----
\* the requests that read, update or delete one row by its id, and the table of the row
ByIdOps ==
    {"get_task", "update_task", "delete_task", "unsync_task_from_calendar",
     "update_category", "delete_category", "update_session", "delete_session",
     "update_local_calendar_event", "delete_local_calendar_event"}

TableOf(op) ==
    CASE op \in {"update_category", "delete_category"} -> categories
      [] op \in {"update_session", "delete_session"} -> sessions
      [] op \in {"update_local_calendar_event", "delete_local_calendar_event"} -> events
      [] OTHER -> tasks

\* the id names no row of the table, or a row of another user
Foreign(table, id, u) == id \notin DOMAIN table \/ table[id].user_id # u

\* C9: a read, update or delete request naming a task, category, pomodoro session or local
\* calendar event id that is absent or owned by another user is answered not-found, leaves
\* the whole store unchanged and makes no weather or calendar call (the sync-to-calendar
\* action checks the caller's Google connection first, and answers 400 without it)
C9_NotFound ==
    [][(last'.op \in ByIdOps \cup {"sync_task_to_calendar"}
        /\ Foreign(TableOf(last'.op), last'.id, last'.user))
       => /\ IF last'.op = "sync_task_to_calendar" /\ ~connected[last'.user]
             THEN last'.status = 400
             ELSE last'.status = 404
          /\ last'.calls = <<>>
          /\ UNCHANGED <<connected, tasks, categories, sessions, events, nextId, createdFor>>]_vars

\* an update naming another user's task was answered not-found
C9_Witness ==
    /\ last.op = "update_task"
    /\ last.id \in DOMAIN tasks
    /\ tasks[last.id].user_id # last.user
    /\ last.status = 404
    /\ last.calls = <<>>

\* the rows of a table that belong to other users than u
RowsOfOthers(table, u) ==
    [i \in {j \in DOMAIN table : table[j].user_id # u} |-> table[i]]

\* C10: no request of a user modifies the tasks, categories, pomodoro sessions or calendar
\* events of another user
C10_UserIsolation ==
    [][last'.op # "init"
       => /\ RowsOfOthers(tasks', last'.user) = RowsOfOthers(tasks, last'.user)
          /\ RowsOfOthers(categories', last'.user) = RowsOfOthers(categories, last'.user)
          /\ RowsOfOthers(sessions', last'.user) = RowsOfOthers(sessions, last'.user)
          /\ RowsOfOthers(events', last'.user) = RowsOfOthers(events, last'.user)]_vars

\* ---- properties of categories (SpecCategory) ----
\* C11: delete_category removes only the category: every task that referenced it still
\* exists afterwards with its category reference null and all its other fields unchanged,
\* and the tasks that reference other categories (or none) are untouched
C11_DeleteCategoryFrame ==
    [][(last'.op = "delete_category" /\ last'.status = 204 /\ last'.id \in DOMAIN categories)
       => /\ DOMAIN categories' = DOMAIN categories \ {last'.id}
          /\ \A c \in DOMAIN categories' : categories'[c] = categories[c]
          /\ DOMAIN tasks' = DOMAIN tasks
          /\ \A t \in DOMAIN tasks :
                tasks'[t] = IF tasks[t].category_id = last'.id
                            THEN [tasks[t] EXCEPT !.category_id = NoId]
                            ELSE tasks[t]
          /\ UNCHANGED <<connected, sessions, events>>]_vars

\* category 1 was deleted: its task is still there without a category (no request of
\* SpecCategory sets a reference to null), and the task of category 2 kept its reference
C11_Witness ==
    /\ last.op = "delete_category"
    /\ last.status = 204
    /\ last.id = 1
    /\ DOMAIN categories = {2}
    /\ DOMAIN tasks = {1, 2}
    /\ tasks[1].category_id = NoId
    /\ tasks[2].category_id = 2

\* ---- properties of the statistics (SpecAnalytics) ----
\* the caller's completed tasks dated on a day
CompletedOn(u, day) ==
    {t \in DOMAIN tasks : tasks[t].user_id = u /\ tasks[t].completed /\ tasks[t].date = day}

\* C12: current_streak is the largest k such that each of the days today, today-1, ...,
\* today-(k-1) has a completed task of the caller dated that day: 0 when no completed task
\* is dated today, 2 when completed tasks are dated today and yesterday but none two days ago
C12_CurrentStreak ==
    last.op = "get_analytics_metrics" =>
        LET run(k) == \A i \in 0..(k - 1) : CompletedOn(last.user, -i) # {}
            k == last.response.current_streak
        IN  /\ last.status = 200
            /\ k \in 0..Cardinality(DOMAIN tasks)
            /\ run(k)
            /\ \A j \in 0..(Cardinality(DOMAIN tasks) + 1) : run(j) => j <= k
            /\ CompletedOn(last.user, 0) = {} => k = 0
            /\ (/\ CompletedOn(last.user, 0) # {}
                /\ CompletedOn(last.user, -1) # {}
                /\ CompletedOn(last.user, -2) = {}) => k = 2

\* the caller completed a task today and one yesterday: a streak of 2
C12_Witness ==
    /\ last.op = "get_analytics_metrics"
    /\ CompletedOn(last.user, 0) # {}
    /\ CompletedOn(last.user, -1) # {}
    /\ last.response.current_streak = 2

\* the dates that carry a completed task of the caller
CompletedDates(u) ==
    {tasks[t].date : t \in {x \in DOMAIN tasks : tasks[x].user_id = u /\ tasks[x].completed}}
        \ {NoDate}

\* C29: for every finite set of tasks the backward-walking streak loop terminates, after
\* at most (number of distinct dates carrying a completed task) + 1 iterations.
C29_StreakLoopTerminates ==
    /\ [](last.op = "current_streak" =>
              last.frame.iterations <= Cardinality(CompletedDates(last.user)) + 1)
    /\ (last.op = "current_streak" /\ last.frame.pc = "while")
           ~> (last.op = "current_streak" /\ last.frame.pc = "done")

\* the loop has ended after three iterations on a streak of two days, the only two dates
\* that carry a completed task: the bound is met
C29_Witness ==
    /\ last.op = "current_streak"
    /\ last.frame.pc = "done"
    /\ last.frame.streak = 2
    /\ last.frame.iterations = 3
    /\ Cardinality(CompletedDates(last.user)) = 2

\* C13: the recent cohort behind recent_rate, productivity_score and completion_rate_change
\* is exactly the caller's tasks dated within the 7 days that end today, today included: a
\* task dated after today, or before those 7 days, is not in it
C13_RecentWindow ==
    last.op = "get_analytics_metrics" =>
        last.response.recent_tasks =
            {t \in DOMAIN tasks : /\ tasks[t].user_id = last.user
                                  /\ tasks[t].date \in (Today - 6)..Today}

\* ---- properties of the statistics (SpecDaily) ----
\* the caller's tasks dated on a day, or from a day on
TasksOn(u, day) == {t \in DOMAIN tasks : tasks[t].user_id = u /\ tasks[t].date = day}

TasksSince(u, day) ==
    {t \in DOMAIN tasks : tasks[t].user_id = u /\ tasks[t].date # NoDate /\ tasks[t].date >= day}

\* C14: for every task set, the empty one included, the metrics and the daily statistics are
\* computed without error, and every ratio over an empty cohort (all tasks, one day, the
\* recent days, the last 30 days, the categories) is reported as 0; with no task at all
\* completion_rate and productivity_score are 0
C14_NoDivisionByZero ==
    /\ last.op \in {"get_analytics_metrics", "get_daily_stats", "get_task_stats"} => last.status = 200
    /\ last.op = "get_task_stats" =>
          (last.response.total_tasks = 0 => last.response.completion_rate = 0)
    /\ last.op = "get_daily_stats" =>
          \A i \in DOMAIN last.response :
             last.response[i].total = 0 => last.response[i].completion_rate = 0
    /\ last.op = "get_analytics_metrics" =>
          LET r == last.response IN
          /\ r.total_tasks = Cardinality({t \in DOMAIN tasks : tasks[t].user_id = last.user})
          /\ r.total_tasks = 0 => r.completion_rate = 0 /\ r.productivity_score = 0
          /\ r.total_tasks = 0 => DOMAIN r.categories = {}
          /\ \A i \in 0..6 : TasksOn(last.user, Today - (6 - i)) = {} => r.weekly_completion[i] = 0
          /\ r.recent_tasks = {} => r.completion_rate_change = 0 - r.completion_rate
          /\ TasksSince(last.user, Today - 30) = {} => r.goal_achievement_month = 0

\* the metrics of a caller without tasks, next to a completed task of the other user
C14_Witness ==
    /\ last.op = "get_analytics_metrics"
    /\ last.status = 200
    /\ last.response.total_tasks = 0
    /\ last.response.productivity_score = 0
    /\ \E t \in DOMAIN tasks : tasks[t].completed /\ tasks[t].date = Today

\* C15: for the requested number of days, daily-stats returns exactly that many entries, one
\* for each consecutive day from today-(days-1) to today in ascending order; the entry of a
\* day has total = the number of the caller's tasks dated that day and completed = the number
\* of those that are completed, and a day without tasks has total, completed and
\* completion_rate 0
C15_DailyStats ==
    last.op = "get_daily_stats" =>
        LET days == last.id IN
        /\ last.status = 200
        /\ DOMAIN last.response = 1..days
        /\ \A i \in 1..days :
              LET entry == last.response[i]
                  on == TasksOn(last.user, entry.date)
              IN  /\ entry.date = Today - (days - 1) + (i - 1)
                  /\ entry.total = Cardinality(on)
                  /\ entry.completed = Cardinality({t \in on : tasks[t].completed})
                  /\ on = {} => entry.total = 0 /\ entry.completed = 0 /\ entry.completion_rate = 0

\* three days were asked for: the day before yesterday has no task, today has a completed
\* one, and the caller's other task lies outside the three days
C15_Witness ==
    /\ last.op = "get_daily_stats"
    /\ last.id = 3
    /\ last.response[1].total = 0
    /\ last.response[3].completed = 1
    /\ \E t \in DOMAIN tasks : tasks[t].user_id = last.user /\ tasks[t].date \in {-3, 1}

\* ---- properties of the statistics (SpecAnalytics) ----
\* the caller's tasks of a priority, and the completed ones among them
WithPriority(u, k, completed_only) ==
    {t \in DOMAIN tasks : /\ tasks[t].user_id = u
                          /\ tasks[t].priority = k
                          /\ completed_only => tasks[t].completed}

\* the breakdown has the three keys, each with the count of the caller's tasks
IsBreakdown(total, completed, u) ==
    /\ DOMAIN total = {"high", "medium", "low"}
    /\ DOMAIN completed = {"high", "medium", "low"}
    /\ \A k \in {"high", "medium", "low"} :
          /\ total[k] = Cardinality(WithPriority(u, k, FALSE))
          /\ completed[k] = Cardinality(WithPriority(u, k, TRUE))

\* C16: the priority breakdown has exactly the keys high, medium and low in its total and
\* completed maps, each counting the caller's tasks (completed tasks) of that priority; a
\* task of another priority ("urgent", null) is in neither map and causes no error
C16_PriorityBreakdown ==
    /\ last.op = "get_analytics_metrics" =>
          /\ last.status = 200
          /\ IsBreakdown(last.response.priority.total, last.response.priority.completed, last.user)
    /\ last.op = "get_task_stats" =>
          /\ last.status = 200
          /\ IsBreakdown(last.response.tasks_by_priority, last.response.completed_by_priority,
                         last.user)

\* the caller has a completed "urgent" task and a completed "high" one: only the latter counts
C16_Witness ==
    /\ last.op = "get_analytics_metrics"
    /\ WithPriority(last.user, "urgent", TRUE) # {}
    /\ last.response.total_tasks = 2
    /\ last.response.priority.total = [high |-> 1, medium |-> 0, low |-> 0]
    /\ last.response.priority.completed = [high |-> 1, medium |-> 0, low |-> 0]

\* ---- properties of the pomodoro statistics (SpecStats) ----
\* the work sessions of user u that started today
WorkToday(u) ==
    {s \in DOMAIN sessions : /\ sessions[s].user_id = u
                             /\ sessions[s].session_type = "work"
                             /\ sessions[s].started_at.day = Today}

\* C17: in the pomodoro statistics, today_sessions is the number of the caller's work
\* sessions started today that are completed, and today_focus_minutes is the sum of
\* elapsed_minutes over all of the caller's work sessions started today, completed or not;
\* shortBreak and longBreak sessions contribute to neither.
C17_TodayStats ==
    last.op = "get_stats" =>
        /\ last.status = 200
        /\ last.response.today_sessions =
               Cardinality({s \in WorkToday(last.user) : sessions[s].is_completed})
        /\ last.response.today_focus_minutes = Elapsed(WorkToday(last.user))

\* three work sessions today with 25, 25 and 10 elapsed minutes, the first two completed:
\* 2 sessions and 60 focus minutes
C17_Witness ==
    /\ last.op = "get_stats"
    /\ Cardinality(WorkToday(last.user)) = 3
    /\ \E a, b, c \in WorkToday(last.user) :
           /\ a # b
           /\ sessions[a].elapsed_minutes = 25 /\ sessions[a].is_completed
           /\ sessions[b].elapsed_minutes = 25 /\ sessions[b].is_completed
           /\ sessions[c].elapsed_minutes = 10 /\ ~sessions[c].is_completed
    /\ last.response.today_sessions = 2
    /\ last.response.today_focus_minutes = 60

\* ---- properties of the weekly statistics (SpecWeek) ----
\* C30: for work sessions none of which starts in the future, week_focus_minutes is the sum
\* of the focus_minutes of the 7 entries of daily_breakdown and week_sessions the sum of
\* their sessions counts.
C30_WeekIsSumOfDays ==
    last.op = "get_stats" =>
        LET d == last.response.daily_breakdown
        IN  /\ last.response.week_focus_minutes =
                   d[0].focus_minutes + d[1].focus_minutes + d[2].focus_minutes
                       + d[3].focus_minutes + d[4].focus_minutes + d[5].focus_minutes
                       + d[6].focus_minutes
            /\ last.response.week_sessions =
                   d[0].sessions + d[1].sessions + d[2].sessions + d[3].sessions
                       + d[4].sessions + d[5].sessions + d[6].sessions

Incomplete(u) == {s \in DOMAIN sessions : sessions[s].user_id = u /\ ~sessions[s].is_completed}

\* session s started no earlier than session o
StartedNoEarlier(s, o) ==
    \/ sessions[s].started_at.day > sessions[o].started_at.day
    \/ /\ sessions[s].started_at.day = sessions[o].started_at.day
       /\ sessions[s].started_at.tick >= sessions[o].started_at.tick

\* C19: after any sequence of start, update, complete and delete requests, the active
\* session returned is one of the caller's incomplete sessions and none of them started
\* later; none is returned exactly when the caller has no incomplete session.
C19_ActiveSession ==
    last.op = "get_active_session" =>
        /\ last.status = 200
        /\ last.response = NoId <=> Incomplete(last.user) = {}
        /\ last.response # NoId =>
               /\ last.response \in Incomplete(last.user)
               /\ \A o \in Incomplete(last.user) : StartedNoEarlier(last.response, o)

\* the caller has two incomplete sessions and a completed one started after them, and
\* the other user an incomplete one: the later of the caller's two is returned
C19_Witness ==
    /\ last.op = "get_active_session"
    /\ last.response \in DOMAIN sessions
    /\ \E o \in Incomplete(last.user) : o < last.response
    /\ \E o \in DOMAIN sessions :
           /\ o > last.response
           /\ \/ sessions[o].user_id = last.user /\ sessions[o].is_completed
              \/ sessions[o].user_id # last.user /\ ~sessions[o].is_completed

\* C28: in every state reached by start-session and update-session requests a session
\* has is_completed = true exactly when its completed_at is not null, and no update
\* request makes a completed session incomplete again.
C28_CompletedStaysCompleted ==
    /\ [](\A s \in DOMAIN sessions : sessions[s].is_completed <=> sessions[s].completed_at # <<>>)
    /\ [][\A s \in DOMAIN sessions \cap DOMAIN sessions' :
              sessions[s].is_completed => sessions'[s].is_completed]_vars

\* a completed session has just been updated with the completion flag false, next to a
\* session that is still running
C28_Witness ==
    /\ last.op = "update_session"
    /\ last.status = 200
    /\ ~last.body.is_completed
    /\ last.id \in DOMAIN sessions
    /\ sessions[last.id].is_completed
    /\ sessions[last.id].completed_at = CompletedAt(Today)
    /\ sessions[last.id].elapsed_minutes = last.body.elapsed_minutes
    /\ \E o \in DOMAIN sessions : ~sessions[o].is_completed /\ sessions[o].completed_at = <<>>

\* ---- properties of the event bodies (SpecBuild) ----
\* date.toordinal(): the number of the day in the proleptic Gregorian calendar
Ordinal(date) ==
    LET y == date.year - 1
        before == [m \in 1..12 |->
                      IF m <= 2 THEN 31 * (m - 1)
                      ELSE 59 + (IF IsLeap(date.year) THEN 1 ELSE 0)
                              + ((m - 3) * 153 + 2) \div 5]
    IN  365 * y + y \div 4 - y \div 100 + y \div 400 + before[date.month] + date.day

\* the characters YYYY-MM-DD of a day of the calendar
IsDateStr(s) ==
    /\ Len(s) = 10
    /\ s[5] = "-" /\ s[8] = "-"
    /\ \A i \in {1, 2, 3, 4, 6, 7, 9, 10} : IsInt(<<s[i]>>)
    /\ Strptime(s).month \in 1..12
    /\ Strptime(s).day \in 1..DaysIn(Strptime(s).year, Strptime(s).month)

\* the characters YYYY-MM-DDTHH:MM:00 of a minute of a day of the calendar
IsDateTimeStr(s) ==
    /\ Len(s) = 19
    /\ IsDateStr(SubSeq(s, 1, 10))
    /\ s[11] = "T" /\ s[14] = ":" /\ SubSeq(s, 17, 19) = <<":", "0", "0">>
    /\ \A i \in {12, 13, 15, 16} : IsInt(<<s[i]>>)
    /\ int(SubSeq(s, 12, 13)) \in 0..23
    /\ int(SubSeq(s, 15, 16)) \in 0..59

\* the minute that the characters of a date and time name
Instant(s) ==
    Ordinal(Strptime(SubSeq(s, 1, 10))) * 1440 + int(SubSeq(s, 12, 13)) * 60
        + int(SubSeq(s, 15, 16))

\* C20: for a date d, the body built with a valid time HH:MM starts at dTHH:MM:00 and
\* ends exactly one hour later, on the next day when the hour passes 23; the body built
\* with no time is all-day, from d to the day after d.
C20_EventInterval ==
    last.op = "_build_event_body" /\ tasks[last.id].date # NoDay =>
        LET d == tasks[last.id].date
            time == tasks[last.id].time
            start == last.response.start
            end == last.response.end
        IN  /\ \A hour \in 0..23, minute \in 0..59 :
                   time = Clock(hour, minute) =>
                       /\ DOMAIN start = {"dateTime", "timeZone"}
                       /\ DOMAIN end = {"dateTime", "timeZone"}
                       /\ IsDateTimeStr(start.dateTime)
                       /\ Strptime(SubSeq(start.dateTime, 1, 10)) = d
                       /\ int(SubSeq(start.dateTime, 12, 13)) = hour
                       /\ int(SubSeq(start.dateTime, 15, 16)) = minute
                       /\ IsDateTimeStr(end.dateTime)
                       /\ Instant(end.dateTime) = Instant(start.dateTime) + 60
            /\ time = <<>> =>
                   /\ DOMAIN start = {"date"}
                   /\ DOMAIN end = {"date"}
                   /\ IsDateStr(start.date)
                   /\ Strptime(start.date) = d
                   /\ IsDateStr(end.date)
                   /\ Ordinal(Strptime(end.date)) = Ordinal(d) + 1

\* 23:30 on 2025-03-10 ends at 2025-03-11T00:30:00
C20_Witness ==
    /\ last.op = "_build_event_body"
    /\ tasks[last.id].date = Date(2025, 3, 10)
    /\ tasks[last.id].time = <<"2", "3", ":", "3", "0">>
    /\ last.response.start.dateTime =
           <<"2", "0", "2", "5", "-", "0", "3", "-", "1", "0", "T",
             "2", "3", ":", "3", "0", ":", "0", "0">>
    /\ last.response.end.dateTime =
           <<"2", "0", "2", "5", "-", "0", "3", "-", "1", "1", "T",
             "0", "0", ":", "3", "0", ":", "0", "0">>

\* a time of two parts that is no wall-clock time: a part is not a number, the hour is
\* outside 0..23 or the minute outside 0..59
Malformed(time) ==
    LET parts == Split(time, ":")
    IN  /\ Len(parts) = 2
        /\ \/ ~IsInt(parts[1])
           \/ ~IsInt(parts[2])
           \/ int(parts[1]) \notin 0..23
           \/ int(parts[2]) \notin 0..59

\* C21: for a date d and a time that is not a valid HH:MM time (non-numeric parts, hour
\* outside 0..23, minute outside 0..59, negative values), the builder produces the all-day
\* encoding, start date d and end date the day after d, and no timed interval.
C21_MalformedTimeIsAllDay ==
    /\ last.op = "_build_event_body"
    /\ tasks[last.id].date # NoDay
    /\ Malformed(tasks[last.id].time)
    => /\ DOMAIN last.response.start = {"date"}
       /\ DOMAIN last.response.end = {"date"}
       /\ Strptime(last.response.start.date) = tasks[last.id].date
       /\ Ordinal(Strptime(last.response.end.date)) = Ordinal(tasks[last.id].date) + 1

\* ---- properties of the updates of tasks (Spec) ----
\* the request answered in the step is an update of a task the caller owns, answered 200
Updates ==
    /\ last'.op = "update_task"
    /\ last'.status = 200
    /\ last'.id \in DOMAIN tasks
    /\ last'.id \in DOMAIN tasks'

\* a weather lookup of the step that returned no data
LookupFailed ==
    \E i \in DOMAIN last'.calls :
        last'.calls[i].call = "weather" /\ last'.calls[i].res # 200

\* C22: when update_task changes the location of a task to a non-empty value different
\* from its previous location and the weather lookup returns data, the weather_data stored
\* after the request is the data of the new location.
C22_WeatherRecaptured ==
    [][/\ Updates
       /\ "location" \in last'.body.fields_set
       /\ last'.body.location # None
       /\ last'.body.location # tasks[last'.id].location
       /\ ~LookupFailed
       => tasks'[last'.id].weather_data = WeatherOf(last'.body.location)]_vars

\* ---- properties of the updates of tasks (SpecFrame) ----
\* C23: update_task sets each field present in the request body to the requested value and
\* leaves unchanged every other editable field of the task (title, description, date, time,
\* completed, priority, location, category, sync flag) and every field of every other task.
C23_UpdateFrame ==
    [][Updates =>
           /\ \A f \in Editable :
                  tasks'[last'.id][f] = IF f \in last'.body.fields_set THEN last'.body[f]
                                        ELSE tasks[last'.id][f]
           /\ DOMAIN tasks' = DOMAIN tasks
           /\ \A o \in DOMAIN tasks \ {last'.id} : tasks'[o] = tasks[o]]_vars

\* an update of completed and date alone, on a task whose priority an earlier update set:
\* both are stored, title and priority are kept, and the other task is as created
C23_Witness ==
    /\ last.op = "update_task"
    /\ last.status = 200
    /\ last.body.fields_set = {"completed", "date"}
    /\ tasks[last.id].completed
    /\ tasks[last.id].date = Today
    /\ tasks[last.id].priority = "high"
    /\ tasks[last.id].title = "t1"
    /\ \E o \in DOMAIN tasks \ {last.id} : tasks[o] = FullTask(1)

\* ---- properties of the accounts (SpecAuth) ----
\* the requests that the step answers at their commit
Committed == DOMAIN inflight \ DOMAIN inflight'

\* C24: under any interleaving of register requests and first logins with Google, no two
\* users share an email, and a register request whose email is already registered is
\* answered 400 and leaves the table of users unchanged.
C24_UniqueEmail ==
    [][/\ \A a, b \in DOMAIN users' : a # b => users'[a].email # users'[b].email
       /\ \A r \in Committed :
              /\ inflight[r].op = "register"
              /\ ByEmail(users, inflight[r].email) # {}
              => last'.status = 400 /\ users' = users]_vars

C26_CategoryOfOwner ==
    \A t \in DOMAIN tasks :
        \/ tasks[t].category_id = NoId
        \/ /\ tasks[t].category_id \in DOMAIN categories
           /\ categories[tasks[t].category_id].user_id = tasks[t].user_id

\* ---- properties of overlapping requests (SpecRace) ----
\* C27: under any interleaving of update_task and sync-to-calendar requests of one user on
\* one task, every remote event created for the task (none is deleted here) is the one
\* that the task's google_calendar_event_id names: no two events live for one task, none
\* is left unreferenced.
C27_OneEventPerTask ==
    \A e \in DOMAIN createdFor :
        createdFor[e] \in DOMAIN tasks => tasks[createdFor[e]].google_calendar_event_id = e

====
